---- MODULE Spec2Model ----
(***************************************************************************)
(* A model of github.com/vburenin/ifacemaker, package maker: the           *)
(* declaration scanner, the embedding graph builder, the type reference    *)
(* formatter, the method extractor (ParseStruct), the orchestrator (Make)  *)
(* and the emitter (MakeInterface).                                        *)
(*                                                                         *)
(* Source text is modelled as a sequence of one-character strings, so that *)
(* the regular expressions and string replacements of the code act on the  *)
(* characters they act on in the program.  A parsed file is modelled by    *)
(* the part of its go/ast tree the code reads.                             *)
(***************************************************************************)
EXTENDS Integers, Sequences, FiniteSets, TLC

(***************************************************************************)
(* Text                                                                    *)
(***************************************************************************)

\* The characters that are not matched by the regexp class \w.  Every other
\* character used in the model is a letter or a digit.
NonWordChars == {"*", "[", "]", ".", ",", " ", "(", ")", "/", "\"", "\n", ":"}

IsWordChar(c) == c \notin NonWordChars

\* s[from..to], empty when from > to (a Go slice expression s[from-1:to]).
Slice(s, from, to) == IF from > to THEN <<>> ELSE SubSeq(s, from, to)

\* strings.HasPrefix(s[i-1:], p): p stands in s at (1-based) position i.
HasAt(s, i, p) ==
    /\ i >= 1
    /\ i + Len(p) - 1 <= Len(s)
    /\ \A k \in 1..Len(p) : s[i + k - 1] = p[k]

\* strings.Index(s, p), 1-based; 0 when p does not occur in s.
IndexOf(s, p) ==
    LET hits == {i \in 1..(Len(s) + 1) : HasAt(s, i, p)}
    IN  IF hits = {} THEN 0 ELSE CHOOSE i \in hits : \A j \in hits : i <= j

\* strings.Replace(s, old, new, 1): the first occurrence of old replaced.
ReplaceFirst(s, old, new) ==
    LET i == IndexOf(s, old)
    IN  IF i = 0 THEN s
        ELSE Slice(s, 1, i - 1) \o new \o Slice(s, i + Len(old), Len(s))

RECURSIVE Join(_, _)
\* strings.Join(parts, sep)
Join(parts, sep) ==
    IF Len(parts) = 0 THEN <<>>
    ELSE IF Len(parts) = 1 THEN parts[1]
    ELSE parts[1] \o sep \o Join(Tail(parts), sep)

CommaSpace == <<",", " ">>

(***************************************************************************)
(* go/ast type expressions, as far as the code inspects them.  Each node   *)
(* is a record tagged with the name of its ast type.                       *)
(***************************************************************************)
Ident(n) == [kind |-> "Ident", name |-> n]
SelectorExpr(x, sel) == [kind |-> "SelectorExpr", x |-> x, sel |-> sel]
StarExpr(x) == [kind |-> "StarExpr", x |-> x]
ArrayType(elt) == [kind |-> "ArrayType", elt |-> elt]
MapType(key, value) == [kind |-> "MapType", key |-> key, value |-> value]
IndexExpr(x, index) == [kind |-> "IndexExpr", x |-> x, index |-> index]
IndexListExpr(x, indices) == [kind |-> "IndexListExpr", x |-> x, indices |-> indices]
Ellipsis(elt) == [kind |-> "Ellipsis", elt |-> elt]
ChanType(value) == [kind |-> "ChanType", value |-> value]

RECURSIVE ExprText(_)
RECURSIVE ExprTexts(_)
\* The source text src[e.Pos()-1 : e.End()-1] of an expression, gofmt-spaced.
ExprText(e) ==
    CASE e.kind = "Ident" -> e.name
      [] e.kind = "SelectorExpr" -> ExprText(e.x) \o <<".">> \o e.sel
      [] e.kind = "StarExpr" -> <<"*">> \o ExprText(e.x)
      [] e.kind = "ArrayType" -> <<"[", "]">> \o ExprText(e.elt)
      [] e.kind = "MapType" ->
            <<"m", "a", "p", "[">> \o ExprText(e.key) \o <<"]">> \o ExprText(e.value)
      [] e.kind = "IndexExpr" -> ExprText(e.x) \o <<"[">> \o ExprText(e.index) \o <<"]">>
      [] e.kind = "IndexListExpr" ->
            ExprText(e.x) \o <<"[">> \o Join(ExprTexts(e.indices), CommaSpace) \o <<"]">>
      [] e.kind = "Ellipsis" -> <<".", ".", ".">> \o ExprText(e.elt)
      [] e.kind = "ChanType" -> <<"c", "h", "a", "n", " ">> \o ExprText(e.value)

ExprTexts(es) == [i \in 1..Len(es) |-> ExprText(es[i])]

\* The text of an embedded field's type, nothing unwrapped.
getEmbeddedStructText(expr) == ExprText(expr)

RECURSIVE getEmbeddedStructName(_)
\* The base struct name of an embedded field; "" for an unsupported node.
getEmbeddedStructName(expr) ==
    CASE expr.kind = "Ident" -> expr.name
      [] expr.kind = "SelectorExpr" -> expr.sel
      [] expr.kind = "StarExpr" -> getEmbeddedStructName(expr.x)
      [] expr.kind = "IndexExpr" -> getEmbeddedStructName(expr.x)
      [] expr.kind = "IndexListExpr" -> getEmbeddedStructName(expr.x)
      [] OTHER -> <<>>

RECURSIVE baseIdentName(_)
\* The base identifier of a type expression; "" when there is none.
baseIdentName(expr) ==
    CASE expr.kind = "Ident" -> expr.name
      [] expr.kind = "SelectorExpr" -> expr.sel
      [] expr.kind = "StarExpr" -> baseIdentName(expr.x)
      [] expr.kind = "ArrayType" -> baseIdentName(expr.elt)
      [] expr.kind = "MapType" -> baseIdentName(expr.value)
      [] expr.kind = "IndexExpr" -> baseIdentName(expr.x)
      [] expr.kind = "IndexListExpr" -> baseIdentName(expr.x)
      [] expr.kind = "Ellipsis" -> baseIdentName(expr.elt)
      [] OTHER -> <<>>

(***************************************************************************)
(* reMatchTypename.  The expression has four capture groups: group 1 is    *)
(* the whole run of prefix items, group 2 the last prefix item (an item is *)
(* a slice marker, a star, or a map marker with its key), group 3 the run  *)
(* of word characters after the prefix, and group 4 a bracketed suffix     *)
(* that reaches to the end of the text.                                    *)
(***************************************************************************)

\* The end (exclusive) of the longest run of \w characters of t from i.
RECURSIVE WordEnd(_, _)
WordEnd(t, i) == IF i <= Len(t) /\ IsWordChar(t[i]) THEN WordEnd(t, i + 1) ELSE i

\* Groups 3 and 4 and the end anchor match t from position i: one or more
\* word characters, then nothing or an opening bracket, one or more characters
\* other than a line break and a closing bracket that ends the text.
TailMatches(t, i) ==
    LET j == WordEnd(t, i)
    IN  /\ j > i
        /\ \/ j = Len(t) + 1
           \/ /\ t[j] = "["
              /\ t[Len(t)] = "]"
              /\ Len(t) - j >= 2
              /\ \A k \in (j + 1)..(Len(t) - 1) : t[k] # "\n"

\* The end (exclusive) of one prefix item of t at i: a slice marker, a star, or
\* the word map with a bracketed key of one or more characters other than a
\* closing bracket; 0 when no item stands there.
ItemEnd(t, i) ==
    IF HasAt(t, i, <<"[", "]">>) THEN i + 2
    ELSE IF HasAt(t, i, <<"*">>) THEN i + 1
    ELSE IF HasAt(t, i, <<"m", "a", "p", "[">>)
         THEN LET close == {k \in (i + 5)..Len(t) : t[k] = "]"}
              IN  IF close = {} \/ t[i + 4] = "]" THEN 0
                  ELSE (CHOOSE c \in close : \A d \in close : c <= d) + 1
    ELSE 0

\* Where the base name starts when the whole expression matches t from i with
\* the greedy, backtracking choice of items the regexp engine makes; 0 when
\* nothing matches.
RECURSIVE BaseStart(_, _)
BaseStart(t, i) ==
    IF ItemEnd(t, i) # 0 /\ BaseStart(t, ItemEnd(t, i)) # 0
    THEN BaseStart(t, ItemEnd(t, i))
    ELSE IF TailMatches(t, i) THEN i
    ELSE 0

\* The text of the last item before position e, the value of group 2.
RECURSIVE LastItem(_, _, _)
LastItem(t, i, e) ==
    IF i >= e THEN <<>>
    ELSE IF ItemEnd(t, i) = e THEN Slice(t, i, e - 1)
    ELSE LastItem(t, ItemEnd(t, i), e)

NoMatch == <<>>

\* reMatchTypename.FindStringSubmatch(t): NoMatch (nil), or the five texts
\* match[0] .. match[4], kept at positions 1 .. 5.
\* The submatches of t for a base name that starts at b.
SubmatchAt(t, b) ==
    IF b = 0 THEN NoMatch
    ELSE << t,
            Slice(t, 1, b - 1),
            LastItem(t, 1, b),
            Slice(t, b, WordEnd(t, b) - 1),
            Slice(t, WordEnd(t, b), Len(t)) >>

FindTypenameSubmatch(t) == SubmatchAt(t, BaseStart(t, 1))

\* match[i] of Go, for a match that is not nil.
Group(match, i) == match[i + 1]

(***************************************************************************)
(* Type reference formatter                                                *)
(***************************************************************************)

\* declaredType{Name, Package}
DeclaredType(name, package) == [Name |-> name, Package |-> package]

\* fmt.Sprintf("%s.%s", dt.Package, dt.Name)
Fullname(dt) == dt.Package \o <<".">> \o dt.Name

\* The index of the group FormatFieldList reads the generic suffix from.
GenericsGroup == 3

\* The first declared type, in list order, that has the base name t2 and lives
\* in a package other than pkgName; the loop over declaredTypes up to its break.
QualifyingTypes(t2, pkgName, declaredTypes) ==
    {i \in 1..Len(declaredTypes) :
        t2 = declaredTypes[i].Name /\ pkgName # declaredTypes[i].Package}

\* The rewrite of t for the qualifying type dt: with a match, the prefix, the
\* full name and what the code reads as the generic suffix; without one, the
\* first occurrence of the base name replaced by the full name.
QualifyWith(t, t2, match, dt) ==
    IF match # NoMatch
    THEN Group(match, 1) \o Fullname(dt) \o Group(match, GenericsGroup)
    ELSE ReplaceFirst(t, t2, Fullname(dt))

\* The text after the cross-package rewrite, for the positions hits of the
\* qualifying types.
QualifyAt(t, t2, hits, declaredTypes) ==
    IF hits = {} THEN t
    ELSE QualifyWith(t, t2, FindTypenameSubmatch(t),
                     declaredTypes[CHOOSE i \in hits : \A j \in hits : i <= j])

\* The text after the cross-package rewrite.
Qualify(t, t2, pkgName, declaredTypes) ==
    QualifyAt(t, t2, QualifyingTypes(t2, pkgName, declaredTypes), declaredTypes)

\* A strip expression without its second alternative, which removes the
\* qualifier at the start of the text only.
StripBoundaryNever(t, i) == FALSE

\* The first alternative of the strip expression applies at position i: only
\* the start of the text, or also a character that is not a word character.
StripBoundaryAt(t, i) == i >= 1 /\ ~IsWordChar(t[i])

RECURSIVE StripFrom(_, _, _)
\* ReplaceAllString(t, "$1") of the expression (start of text or one character
\* that is not a word character) followed by the quoted q: the matches are
\* taken left to right and do not overlap; group 1 is kept, q is dropped.
StripFrom(t, i, q) ==
    IF i > Len(t) THEN <<>>
    ELSE IF i = 1 /\ HasAt(t, 1, q) THEN StripFrom(t, 1 + Len(q), q)
    ELSE IF StripBoundaryAt(t, i) /\ HasAt(t, i + 1, q)
         THEN <<t[i]>> \o StripFrom(t, i + 1 + Len(q), q)
    ELSE <<t[i]>> \o StripFrom(t, i + 1, q)

\* The destination package qualifier pkgName. stripped from t.
StripDestPkg(t, pkgName) == StripFrom(t, 1, pkgName \o <<".">>)

\* One ast.Field: the names that share the type, and the type expression.
Field(names, type) == [Names |-> names, Type |-> type]

\* The formatted type t with the names that share it in front.
WithNames(names, t) ==
    IF Len(names) > 0 THEN Join(names, CommaSpace) \o <<" ">> \o t ELSE t

\* The body of FormatFieldList's loop for one field l.
FormatField(l, pkgName, declaredTypes) ==
    WithNames(l.Names,
              StripDestPkg(Qualify(ExprText(l.Type), baseIdentName(l.Type),
                                   pkgName, declaredTypes),
                           pkgName))

\* FormatFieldList(src, fl, pkgName, declaredTypes); fl is fl.List, and a nil
\* fl is the empty list, for which the result is nil, the empty list.
FormatFieldList(fl, pkgName, declaredTypes) ==
    [i \in 1..Len(fl) |-> FormatField(fl[i], pkgName, declaredTypes)]

(***************************************************************************)
(* Parsed files.  A file is what os.ReadFile and parser.ParseFile give for *)
(* it: whether it can be read (on every read, on none, or on the first     *)
(* read only), whether it parses, and the fields of the ast.File the code  *)
(* reads.                                                                  *)
(***************************************************************************)

\* An ast.StructType with its field list.
StructType(fields) == [kind |-> "StructType", Fields |-> fields]

\* An ast.TypeSpec.  TypeParams is the source text of the type parameter list,
\* empty when the spec has none; Doc is the text go/doc gives for the type.
TypeSpec(name, typeParams, type, doc) ==
    [Name |-> name, TypeParams |-> typeParams, Type |-> type, Doc |-> doc]

\* An ast.GenDecl with token.TYPE.
TypeDecl(specs) == [kind |-> "GenDecl", Tok |-> "type", Specs |-> specs]

\* An ast.GenDecl with another token (import, const, var).
OtherDecl(tok) == [kind |-> "GenDecl", Tok |-> tok, Specs |-> <<>>]

\* An ast.FuncDecl.  Recv is fd.Recv.List, empty for a function; Doc is the
\* list of the doc comment's lines as they stand in the source.
FuncDecl(recv, name, params, results, doc) ==
    [kind |-> "FuncDecl", Recv |-> recv, Name |-> name,
     Params |-> params, Results |-> results, Doc |-> doc]

\* An ast.ImportSpec: Name is empty when the import has no alias.
ImportSpec(name, path) == [Name |-> name, Path |-> path]

\* A source file.
SourceFile(readable, valid, package, imports, decls) ==
    [readable |-> readable, valid |-> valid, Name |-> package,
     Imports |-> imports, Decls |-> decls]

\* getTypeDeclarationNames(decl)
getTypeDeclarationNames(decl) ==
    IF decl.kind # "GenDecl" \/ decl.Tok # "type" THEN <<>>
    ELSE [i \in 1..Len(decl.Specs) |-> decl.Specs[i].Name]

RECURSIVE Flatten(_)
\* The concatenation of a list of lists.
Flatten(lists) == IF Len(lists) = 0 THEN <<>> ELSE Head(lists) \o Flatten(Tail(lists))

\* ParseDeclaredTypes(src) for a file that parses.
ParseDeclaredTypes(file) ==
    LET names == Flatten([i \in 1..Len(file.Decls) |-> getTypeDeclarationNames(file.Decls[i])])
    IN  [i \in 1..Len(names) |-> DeclaredType(names[i], file.Name)]

(***************************************************************************)
(* Go maps from a string to a list of strings, as functions.               *)
(***************************************************************************)
EmptyMap == [k \in {} |-> <<>>]

\* m[k] of Go: the nil (empty) list when k is not a key.
MapGet(m, k) == IF k \in DOMAIN m THEN m[k] ELSE <<>>

\* m[k] = v
MapPut(m, k, v) == [x \in (DOMAIN m) \cup {k} |-> IF x = k THEN v ELSE m[x]]

\* The type specs of the token.TYPE declarations of a file, in file order.
TypeSpecsOf(file) ==
    Flatten([i \in 1..Len(file.Decls) |->
        IF file.Decls[i].kind = "GenDecl" /\ file.Decls[i].Tok = "type"
        THEN file.Decls[i].Specs ELSE <<>>])

RECURSIVE EmbeddedNames(_)
\* The inner loop of ParseEmbeddingGraph over the fields of one struct: the
\* names of the fields that have no name of their own, without the empty ones.
EmbeddedNames(fields) ==
    IF Len(fields) = 0 THEN <<>>
    ELSE LET f == Head(fields)
             name == getEmbeddedStructName(f.Type)
         IN  IF Len(f.Names) > 0 \/ name = <<>>
             THEN EmbeddedNames(Tail(fields))
             ELSE <<name>> \o EmbeddedNames(Tail(fields))

RECURSIVE GraphOfSpecs(_, _)
\* The loop of ParseEmbeddingGraph over the type specs.
GraphOfSpecs(specs, graph) ==
    IF Len(specs) = 0 THEN graph
    ELSE LET ts == Head(specs)
         IN  IF ts.Type.kind # "StructType"
             THEN GraphOfSpecs(Tail(specs), graph)
             ELSE GraphOfSpecs(Tail(specs),
                      MapPut(graph, ts.Name,
                             MapGet(graph, ts.Name) \o EmbeddedNames(ts.Type.Fields)))

\* ParseEmbeddingGraph(src) for a file that parses.
ParseEmbeddingGraph(file) == GraphOfSpecs(TypeSpecsOf(file), EmptyMap)

(***************************************************************************)
(* Method extractor                                                        *)
(***************************************************************************)

UpperCaseLetters ==
    {"A", "B", "C", "D", "E", "F", "G", "H", "I", "J", "K", "L", "M",
     "N", "O", "P", "Q", "R", "S", "T", "U", "V", "W", "X", "Y", "Z"}

\* ast.Ident.IsExported: the name starts with an upper case letter.
IsExported(name) == Len(name) > 0 /\ name[1] \in UpperCaseLetters

\* GetReceiverType(fd) fails for a function, which has no receiver.
IsMethodDecl(decl) == decl.kind = "FuncDecl" /\ Len(decl.Recv) > 0

\* st without a leading star.
StripStar(st) == IF Len(st) > 0 /\ st[1] = "*" THEN Tail(st) ELSE st

\* st without its bracketed suffix, when st is a word with an optional
\* bracketed suffix.
StripGenerics(st) == IF TailMatches(st, 1) THEN Slice(st, 1, WordEnd(st, 1) - 1) ELSE st

\* The receiver's type text as it stands in the source.
GetReceiverTypeText(decl) ==
    IF ~IsMethodDecl(decl) THEN <<>> ELSE ExprText(decl.Recv[1].Type)

\* GetReceiverTypeName(src, decl): the receiver's type text without a leading
\* star and, when it is a word with an optional bracketed suffix, without the
\* suffix; "" when decl is not a method.
GetReceiverTypeName(decl) ==
    IF ~IsMethodDecl(decl) THEN <<>>
    ELSE StripGenerics(StripStar(ExprText(decl.Recv[1].Type)))

\* Method{Name, Code, Docs}
Method(name, code, docs) == [Name |-> name, Code |-> code, Docs |-> docs]

\* Method.Lines()
Lines(m) == m.Docs \o <<m.Code>>

\* The signature text for a name and formatted parameters and results.
Signature(mName, params, ret) ==
    IF Len(ret) = 0
    THEN mName \o <<"(">> \o Join(params, CommaSpace) \o <<")">>
    ELSE mName \o <<"(">> \o Join(params, CommaSpace) \o <<")", " ", "(">>
             \o Join(ret, CommaSpace) \o <<")">>

\* The signature text ParseStruct assembles for the method fd.
MethodCode(fd, pkgName, declaredTypes) ==
    Signature(fd.Name,
              FormatFieldList(fd.Params, pkgName, declaredTypes),
              FormatFieldList(fd.Results, pkgName, declaredTypes))

\* A methodSet that is never consulted.
SeenMethodNever(methodSet, mName) == FALSE

\* The test of ParseStruct's methodSet for a method name.
SeenMethod(methodSet, mName) == mName \in methodSet

\* A filter that lets every method pass.
NotWantedNever(withNotExported, mName) == FALSE

\* "if !withNotExported && !fd.Name.IsExported() { continue }"
NotWanted(withNotExported, mName) == ~withNotExported /\ ~IsExported(mName)

\* The body both loops of ParseStruct run for a method fd whose receiver is
\* wanted.  acc holds the methods returned so far and the methodSet; a holds
\* the arguments of ParseStruct.
AddMethod(acc, fd, a) ==
    IF SeenMethod(acc.methodSet, fd.Name) THEN acc
    ELSE IF NotWanted(a.withNotExported, fd.Name) THEN acc
    ELSE [methods |-> Append(acc.methods,
                         Method(fd.Name,
                                MethodCode(fd, a.pkgName, a.declaredTypes),
                                IF a.copyDocs THEN fd.Doc ELSE <<>>)),
          methodSet |-> acc.methodSet \cup {fd.Name}]

RECURSIVE DirectMethods(_, _, _)
\* "Process direct methods first": the loop over the declarations whose
\* receiver type name is structName.
DirectMethods(decls, acc, a) ==
    IF Len(decls) = 0 THEN acc
    ELSE DirectMethods(Tail(decls),
                       IF GetReceiverTypeName(Head(decls)) = a.structName
                       THEN AddMethod(acc, Head(decls), a) ELSE acc,
                       a)

RECURSIVE PromotedMethods(_, _, _)
\* "Add promoted methods next": the loop over the declarations whose receiver
\* type name is in embeddedStructNamesSet.
PromotedMethods(decls, acc, a) ==
    IF Len(decls) = 0 THEN acc
    ELSE PromotedMethods(Tail(decls),
                         IF GetReceiverTypeName(Head(decls)) \in a.embeddedStructNamesSet
                         THEN AddMethod(acc, Head(decls), a) ELSE acc,
                         a)

\* The import lines ParseStruct returns.
ImportLines(file, importModule) ==
    [i \in 1..Len(file.Imports) |->
        IF file.Imports[i].Name # <<>>
        THEN file.Imports[i].Name \o <<" ">> \o file.Imports[i].Path
        ELSE file.Imports[i].Path]
    \o (IF importModule # <<>>
        THEN << <<".", " ", "\"">> \o importModule \o <<"\"">> >>
        ELSE <<>>)

RECURSIVE TypeParamsOf(_, _, _)
\* The first loop of ParseStruct: the type parameter text of the last spec
\* named structName that has type parameters.
TypeParamsOf(specs, structName, typeParams) ==
    IF Len(specs) = 0 THEN typeParams
    ELSE TypeParamsOf(Tail(specs), structName,
             IF Head(specs).Name = structName /\ Head(specs).TypeParams # <<>>
             THEN Head(specs).TypeParams ELSE typeParams)

\* strings.TrimSuffix(s, "\n")
TrimNewline(s) == IF Len(s) > 0 /\ s[Len(s)] = "\n" THEN Slice(s, 1, Len(s) - 1) ELSE s

RECURSIVE TypeDocOf(_, _, _)
\* The loop over pkgDoc.Types: the doc of the type named structName.
TypeDocOf(specs, structName, typeDoc) ==
    IF Len(specs) = 0 THEN typeDoc
    ELSE TypeDocOf(Tail(specs), structName,
             IF Head(specs).Name = structName
             THEN TrimNewline(Head(specs).Doc) ELSE typeDoc)

\* The arguments of ParseStruct other than the source.
ParseStructArgs(structName, copyDocs, copyTypeDocs, pkgName, declaredTypes, importModule, withNotExported, embeddedStructNamesSet, withPromoted) ==
    [structName |-> structName, copyDocs |-> copyDocs, copyTypeDocs |-> copyTypeDocs,
     pkgName |-> pkgName, declaredTypes |-> declaredTypes, importModule |-> importModule,
     withNotExported |-> withNotExported,
     embeddedStructNamesSet |-> embeddedStructNamesSet, withPromoted |-> withPromoted]

\* A promoted loop that runs whether or not promoted methods are asked for.
AddPromotedAlways(decls, direct, a) == PromotedMethods(decls, direct, a)

\* The direct methods, followed by the promoted ones when they are asked for.
AddPromoted(decls, direct, a) ==
    IF a.withPromoted THEN PromotedMethods(decls, direct, a) ELSE direct

\* The two method loops in the other order: the promoted one first.
ExtractMethodsPromotedFirst(file, a) ==
    DirectMethods(file.Decls,
                  AddPromoted(file.Decls, [methods |-> <<>>, methodSet |-> {}], a), a)

\* The two method loops of ParseStruct.
ExtractMethods(file, a) ==
    AddPromoted(file.Decls,
                DirectMethods(file.Decls, [methods |-> <<>>, methodSet |-> {}], a), a)

\* ParseStruct(src, ...) for a file that parses.
ParseStruct(file, a) ==
    [methods |-> ExtractMethods(file, a).methods,
         imports |-> ImportLines(file, a.importModule),
         typeDoc |-> IF a.copyTypeDocs
                     THEN TypeDocOf(TypeSpecsOf(file), a.structName, <<>>) ELSE <<>>,
         typeParams |-> TypeParamsOf(TypeSpecsOf(file), a.structName, <<>>)]

(***************************************************************************)
(* Emitter                                                                 *)
(***************************************************************************)

RECURSIVE ReplaceNewlines(_, _)
\* strings.ReplaceAll(s, "\n", new)
ReplaceNewlines(s, new) ==
    IF Len(s) = 0 THEN <<>>
    ELSE (IF Head(s) = "\n" THEN new ELSE <<Head(s)>>) \o ReplaceNewlines(Tail(s), new)

GoGenerate == <<"g", "o", ":", "g", "e", "n", "e", "r", "a", "t", "e">>

\* The text MakeInterface hands to FormatCode: its output lines joined by
\* line breaks.
InterfaceCode(comment, pkgName, ifaceName, ifaceComment, typeParams, methods, imports) ==
    LET head == << <<"/", "/", " ">> \o comment,
                   <<>>,
                   <<"p", "a", "c", "k", "a", "g", "e", " ">> \o pkgName,
                   <<"i", "m", "p", "o", "r", "t", " ", "(">> >>
        close == << <<")">>, <<>> >>
        prefix == IF HasAt(ifaceComment, 1, GoGenerate) THEN <<"/", "/">>
                  ELSE <<"/", "/", " ">>
        doc == IF Len(ifaceComment) > 0
               THEN << prefix \o ReplaceNewlines(ifaceComment, <<"\n", "/", "/", " ">>) >>
               ELSE <<>>
        decl == << <<"t", "y", "p", "e", " ">> \o ifaceName \o typeParams
                   \o <<" ", "i", "n", "t", "e", "r", "f", "a", "c", "e", " ", "{">> >>
    IN  Join(head \o imports \o close \o doc \o decl \o methods \o << <<"}">> >>,
             <<"\n">>)

\* An error value: its kind, the type name it names and the position in
\* options.Files of the file it is about (0 when it is about none).
Error(kind, type, file) == [kind |-> kind, type |-> type, file |-> file]

\* The nil error.
NoError == Error("nil", <<>>, 0)

\* The error imports.Process returns for a text it cannot parse.
SyntaxError == Error("syntax", <<>>, 0)

\* The formatted form of a text imports.Process accepts: a function of the
\* text that is not the text itself.
Formatted(code) == <<"gofmt">> \o code

\* FormatCode(code): imports.Process is an external collaborator.  It either
\* accepts the text and returns its formatted form, or rejects it with a
\* syntax error and returns no text.
FormatCode(code, accepted) ==
    IF accepted THEN [bytes |-> Formatted(code), err |-> NoError]
    ELSE [bytes |-> <<>>, err |-> SyntaxError]

\* An emitter that returns the assembled text as it is, whatever the formatter
\* said of it.
MakeInterfaceUnformatted(comment, pkgName, ifaceName, ifaceComment, typeParams, methods, imports, accepted) ==
    [bytes |-> InterfaceCode(comment, pkgName, ifaceName, ifaceComment,
                             typeParams, methods, imports),
     err |-> IF accepted THEN NoError ELSE SyntaxError]

\* MakeInterface(...): FormatCode's result is returned as it is.
MakeInterface(comment, pkgName, ifaceName, ifaceComment, typeParams, methods, imports, accepted) ==
    FormatCode(InterfaceCode(comment, pkgName, ifaceName, ifaceComment,
                             typeParams, methods, imports), accepted)

(***************************************************************************)
(* Orchestrator: the steps of Make as functions of its local variables.    *)
(***************************************************************************)

\* A validation that accepts every type name.
validateStructTypeAlways(types, stType) == TRUE

\* validateStructType(types, stType)
validateStructType(types, stType) == \E i \in 1..Len(types) : types[i].Name = stType

\* A tset keyed by the bare name of the type.
SeenTypeByName(tset, t) == \E k \in tset : HasAt(k, Len(k) - Len(t.Name), <<".">> \o t.Name)

\* A tset that is never consulted.
SeenTypeNever(tset, t) == FALSE

\* The test of Make's tset for a declared type.
SeenType(tset, t) == Fullname(t) \in tset

RECURSIVE AddTypes(_, _)
\* "Track if we've seen the input Struct type": the loop over the types of a
\* file.  acc holds allDeclaredTypes and tset.
AddTypes(types, acc) ==
    IF Len(types) = 0 THEN acc
    ELSE AddTypes(Tail(types),
             IF SeenType(acc.tset, Head(types)) THEN acc
             ELSE [allDeclaredTypes |-> Append(acc.allDeclaredTypes, Head(types)),
                   tset |-> acc.tset \cup {Fullname(Head(types))}])

\* All the orders in which a range loop may visit the keys of a map.
KeyOrders(m) ==
    {o \in [1..Cardinality(DOMAIN m) -> DOMAIN m] :
        \A i, j \in DOMAIN o : i # j => o[i] # o[j]}

\* A merge that stops after the first key the map iteration yields.
MergeGraphFirstKey(full, graph, order) ==
    IF Len(order) = 0 THEN full
    ELSE MapPut(full, Head(order), MapGet(full, Head(order)) \o graph[Head(order)])

RECURSIVE MergeGraph(_, _, _)
\* "Track the full call graph": the loop over the keys of a file's graph, in
\* the order the map iteration yields them.
MergeGraph(full, graph, order) ==
    IF Len(order) = 0 THEN full
    ELSE MergeGraph(MapPut(full, Head(order),
                           MapGet(full, Head(order)) \o graph[Head(order)]),
                    graph, Tail(order))

\* A traversal without its visited set.
VisitedNever(set, embeddedStruct) == FALSE

\* A traversal that does not follow the types it reaches.
EnqueueDropped(queue, embeddedStruct) == queue

\* The test of embeddedStructNamesSet in the traversal.
Visited(set, embeddedStruct) == embeddedStruct \in set

\* queue = append(queue, embeddedStruct)
Enqueue(queue, embeddedStruct) == Append(queue, embeddedStruct)

RECURSIVE VisitEmbeddedUnmarked(_, _)
\* An inner loop that appends the types it reaches to the queue without
\* entering them in the set.
VisitEmbeddedUnmarked(embedded, st) ==
    IF Len(embedded) = 0 THEN st
    ELSE VisitEmbeddedUnmarked(Tail(embedded),
             IF Visited(st.set, Head(embedded)) THEN st
             ELSE [set |-> st.set, queue |-> Enqueue(st.queue, Head(embedded))])

RECURSIVE VisitEmbedded(_, _)
\* The inner loop of the traversal over the types the current one embeds.
\* st holds queue and embeddedStructNamesSet.
VisitEmbedded(embedded, st) ==
    IF Len(embedded) = 0 THEN st
    ELSE VisitEmbedded(Tail(embedded),
             IF Visited(st.set, Head(embedded)) THEN st
             ELSE [set |-> st.set \cup {Head(embedded)},
                   queue |-> Enqueue(st.queue, Head(embedded))])

\* A turn that enters the name it takes off the queue in the set as well.
ClosureStepMarkingHead(graph, st) ==
    VisitEmbedded(MapGet(graph, Head(st.queue)),
                  [set |-> st.set \cup {Head(st.queue)}, queue |-> Tail(st.queue)])

\* One turn of the traversal's outer loop, for a queue that is not empty.
ClosureStep(graph, st) ==
    VisitEmbedded(MapGet(graph, Head(st.queue)), [set |-> st.set, queue |-> Tail(st.queue)])

\* An exclusion list that is never consulted.
ExcludedNever(excludedMethods, m) == FALSE

\* A run-wide mset that is never consulted.
InMsetNever(mset, m) == FALSE

\* The test of excludedMethods for a method.
Excluded(excludedMethods, m) == m.Name \in excludedMethods

\* The test of Make's mset for a method.
InMset(mset, m) == m.Name \in mset

RECURSIVE MergeMethodsUntilExcluded(_, _, _)
\* A loop that ends at the first excluded method instead of going on to the
\* next method.
MergeMethodsUntilExcluded(methods, excludedMethods, acc) ==
    IF Len(methods) = 0 THEN acc
    ELSE IF Excluded(excludedMethods, Head(methods)) THEN acc
    ELSE MergeMethodsUntilExcluded(Tail(methods), excludedMethods,
             IF InMset(acc.mset, Head(methods)) THEN acc
             ELSE [allMethods |-> acc.allMethods \o Lines(Head(methods)),
                   mset |-> acc.mset \cup {Head(methods).Name}])

RECURSIVE MergeMethods(_, _, _)
\* The loop of the second pass over the methods of one file.  acc holds
\* allMethods and mset.
MergeMethods(methods, excludedMethods, acc) ==
    IF Len(methods) = 0 THEN acc
    ELSE MergeMethods(Tail(methods), excludedMethods,
             IF Excluded(excludedMethods, Head(methods)) THEN acc
             ELSE IF InMset(acc.mset, Head(methods)) THEN acc
             ELSE [allMethods |-> acc.allMethods \o Lines(Head(methods)),
                   mset |-> acc.mset \cup {Head(methods).Name}])

\* A run-wide iset that is never consulted.
SeenImportNever(iset, i) == FALSE

\* The test of Make's iset for an import line.
SeenImport(iset, i) == i \in iset

RECURSIVE MergeImports(_, _)
\* The loop of the second pass over the imports of one file.  acc holds
\* allImports and iset.
MergeImports(imports, acc) ==
    IF Len(imports) = 0 THEN acc
    ELSE MergeImports(Tail(imports),
             IF SeenImport(acc.iset, Head(imports)) THEN acc
             ELSE [allImports |-> Append(acc.allImports, Head(imports)),
                   iset |-> acc.iset \cup {Head(imports)}])

\* A field that every file with a value of its own overwrites.
LastNonEmpty(current, parsed) == IF parsed # <<>> THEN parsed ELSE current

\* "if typeDoc == "" { typeDoc = parsedTypeDoc }", and the same for ifaceParams.
FirstNonEmpty(current, parsed) == IF current = <<>> THEN parsed ELSE current

\* A composition that puts the type doc in front of the caller's comment.
ComposeTypeDocFirst(ifaceComment, typeDoc) ==
    IF typeDoc # <<>> THEN typeDoc \o <<"\n">> \o ifaceComment ELSE ifaceComment

\* fmt.Sprintf("%s\n%s", options.IfaceComment, typeDoc) when a type doc was kept.
ComposeIfaceComment(ifaceComment, typeDoc) ==
    IF typeDoc # <<>> THEN ifaceComment \o <<"\n">> \o typeDoc ELSE ifaceComment

\* fmt.Errorf("%q structtype not found in input files", options.StructType)
NotFoundError(structType) == Error("notFound", structType, 0)

\* The error os.ReadFile returns for the file at position i of options.Files.
ReadError(i) == Error("read", <<>>, i)

(***************************************************************************)
(* Inputs: the names and the source files the runs are drawn from.         *)
(***************************************************************************)
tA == <<"A">>
tB == <<"B">>
tC == <<"C">>
tT == <<"T">>
pkgP == <<"p">>
pkgQ == <<"q">>
mF == <<"F">>
mG == <<"G">>
mH == <<"H">>
mh == <<"h">>
tInt == <<"i", "n", "t">>
tString == <<"s", "t", "r", "i", "n", "g">>
tBool == <<"b", "o", "o", "l">>

\* A receiver list with one unnamed receiver of the given type.
Recv(type) == <<Field(<<>>, type)>>

\* A result list with one unnamed result of the given type.
Result(type) == <<Field(<<>>, type)>>

\* package p
\* // B is the base.
\* type B struct{}
\* // F of B.
\* func (B) F() string
\* func (b *B) G() []C
FileBase ==
    SourceFile("always", TRUE, pkgP, <<>>,
        << TypeDecl(<<TypeSpec(tB, <<>>, StructType(<<>>),
                               <<"B", " ", "i", "s", " ", "b", "a", "s", "e", ".", "\n">>)>>),
           FuncDecl(Recv(Ident(tB)), mF, <<>>, Result(Ident(tString)),
                    << <<"/", "/", " ", "F", " ", "o", "f", " ", "B", ".">> >>),
           FuncDecl(Recv(StarExpr(Ident(tB))), mG, <<>>, Result(ArrayType(Ident(tC))), <<>>) >>)

\* package p
\* import "fmt"
\* type A struct { B; n int }
\* func (a *A) F() int
FileSub ==
    SourceFile("always", TRUE, pkgP,
        <<ImportSpec(<<>>, <<"\"", "f", "m", "t", "\"">>)>>,
        << OtherDecl("import"),
           TypeDecl(<<TypeSpec(tA, <<>>,
                        StructType(<<Field(<<>>, Ident(tB)),
                                     Field(<< <<"n">> >>, Ident(tInt))>>), <<>>)>>),
           FuncDecl(Recv(StarExpr(Ident(tA))), mF, <<>>, Result(Ident(tInt)), <<>>) >>)

\* package p
\* import (
\*     x "os"
\*     "fmt"
\* )
\* func (c C) F() int
\* func (c C) G() int
\* func (c C) H() bool
\* func (b *B) G() string
\* func (b *B) h()
\* func (a A) F() string
\* func helper()
\* type (
\*     A struct{ *B }
\*     B struct{ C }
\*     C struct{}
\* )
FileChain ==
    SourceFile("always", TRUE, pkgP,
        << ImportSpec(<<"x">>, <<"\"", "o", "s", "\"">>),
           ImportSpec(<<>>, <<"\"", "f", "m", "t", "\"">>) >>,
        << OtherDecl("import"),
           FuncDecl(Recv(Ident(tC)), mF, <<>>, Result(Ident(tInt)), <<>>),
           FuncDecl(Recv(Ident(tC)), mG, <<>>, Result(Ident(tInt)), <<>>),
           FuncDecl(Recv(Ident(tC)), mH, <<>>, Result(Ident(tBool)), <<>>),
           FuncDecl(Recv(StarExpr(Ident(tB))), mG, <<>>, Result(Ident(tString)), <<>>),
           FuncDecl(Recv(StarExpr(Ident(tB))), mh, <<>>, <<>>, <<>>),
           FuncDecl(Recv(Ident(tA)), mF, <<>>, Result(Ident(tString)), <<>>),
           FuncDecl(<<>>, <<"h", "e", "l", "p", "e", "r">>, <<>>, <<>>, <<>>),
           TypeDecl(<< TypeSpec(tA, <<>>, StructType(<<Field(<<>>, StarExpr(Ident(tB)))>>), <<>>),
                       TypeSpec(tB, <<>>, StructType(<<Field(<<>>, Ident(tC))>>), <<>>),
                       TypeSpec(tC, <<>>, StructType(<<>>), <<>>) >>) >>)

\* package q
\* // B of q.
\* type B struct{ A }
\* func (b B) H(x A) bool
FileBack ==
    SourceFile("always", TRUE, pkgQ, <<>>,
        << TypeDecl(<<TypeSpec(tB, <<>>, StructType(<<Field(<<>>, Ident(tA))>>),
                               <<"B", " ", "o", "f", " ", "q", ".", "\n">>)>>),
           FuncDecl(Recv(Ident(tB)), mH, <<Field(<< <<"x">> >>, Ident(tA))>>,
                    Result(Ident(tBool)), <<>>) >>)

\* package p
\* // A is generic.
\* type A[T any] struct { *A[T]; q.C }
\* func (a *A[T]) G() T
\* func (c *C) G() bool
\* func (c *C) H() map[string]*A[T]
FileSelf ==
    SourceFile("always", TRUE, pkgP, <<>>,
        << TypeDecl(<<TypeSpec(tA, <<"[", "T", " ", "a", "n", "y", "]">>,
                        StructType(<<Field(<<>>, StarExpr(IndexExpr(Ident(tA), Ident(tT)))),
                                     Field(<<>>, SelectorExpr(Ident(pkgQ), tC))>>),
                        <<"A", " ", "i", "s", " ", "g", "e", "n", "e", "r", "i", "c", ".", "\n">>)>>),
           FuncDecl(Recv(StarExpr(IndexExpr(Ident(tA), Ident(tT)))), mG, <<>>,
                    Result(Ident(tT)), <<>>),
           FuncDecl(Recv(StarExpr(Ident(tC))), mG, <<>>, Result(Ident(tBool)), <<>>),
           FuncDecl(Recv(StarExpr(Ident(tC))), mH, <<>>,
                    Result(MapType(Ident(tString), StarExpr(IndexExpr(Ident(tA), Ident(tT))))),
                    <<>>) >>)

\* package q
\* type A[K any] int
\* type C struct{ B }
\* func (A[K]) h()
\* func (C) H() *A
FileAlias ==
    SourceFile("always", TRUE, pkgQ, <<>>,
        << TypeDecl(<<TypeSpec(tA, <<"[", "K", " ", "a", "n", "y", "]">>, Ident(tInt), <<>>)>>),
           TypeDecl(<<TypeSpec(tC, <<>>, StructType(<<Field(<<>>, Ident(tB))>>), <<>>)>>),
           FuncDecl(Recv(IndexExpr(Ident(tA), Ident(<<"K">>))), mh, <<>>, <<>>, <<>>),
           FuncDecl(Recv(Ident(tC)), mH, <<>>, Result(StarExpr(Ident(tA))), <<>>) >>)

\* A path os.ReadFile fails on.
FileMissing == SourceFile("never", TRUE, pkgP, <<>>, <<>>)

\* A file that is read and does not parse.
FileBroken == SourceFile("always", FALSE, pkgP, <<>>, <<>>)

\* package p
\* type A struct{}
\* func (A) F()
\* A file that is there for the first pass and gone for the second.
FileVanishing ==
    SourceFile("once", TRUE, pkgP, <<>>,
        << TypeDecl(<<TypeSpec(tA, <<>>, StructType(<<>>), <<>>)>>),
           FuncDecl(Recv(Ident(tA)), mF, <<>>, <<>>, <<>>) >>)

\* The file system: the file behind each path.  A path is a position here.
FileSystem ==
    << FileBase, FileSub, FileChain, FileBack, FileSelf, FileAlias,
       FileMissing, FileBroken, FileVanishing >>

Paths == 1..Len(FileSystem)

\* The most files a run is given.
MaxFiles == 2

\* The file lists a run may be given: every list of at most MaxFiles paths.
FileLists == UNION {[1..n -> Paths] : n \in 0..MaxFiles}

\* The MakeOptions a run may be given.
OptionSets ==
    [Files : FileLists,
     StructType : {tA, tB},
     Comment : {<<"D", "O", " ", "N", "O", "T", " ", "E", "D", "I", "T">>},
     PkgName : {pkgP, pkgQ},
     WithPromoted : BOOLEAN,
     IfaceName : {<<"I">>},
     IfaceComment : {<<"I", " ", "i", "s", " ", "A">>},
     ImportModule : {<<>>, <<"m">>},
     CopyDocs : {TRUE},
     CopyTypeDoc : {TRUE},
     ExcludeMethods : {<<>>, <<mF>>},
     WithNotExported : BOOLEAN]

(***************************************************************************)
(* The state of one run of Make                                            *)
(***************************************************************************)
VARIABLES
    options,                 \* the MakeOptions of the run
    pc,                      \* where the run stands in Make
    idx,                     \* the position in options.Files of the loop at pc
    allDeclaredTypes, tset, fullEmbeddingGraph,
    excludedMethods, embeddedStructNamesSet, queue,
    allMethods, mset, allImports, iset, typeDoc, ifaceParams,
    parsed,                  \* what the last call of ParseStruct returned
    calls,                   \* how often ParseStruct and MakeInterface were called
    ret,                     \* what Make returned: bytes and err
    fmtIn,                   \* the arguments of a call of FormatFieldList
    fmtOut                   \* what that call returned

makeVars ==
    << options, pc, idx, allDeclaredTypes, tset, fullEmbeddingGraph,
       excludedMethods, embeddedStructNamesSet, queue,
       allMethods, mset, allImports, iset, typeDoc, ifaceParams,
       parsed, calls, ret >>

fmtVars == << fmtIn, fmtOut >>

vars == << makeVars, fmtVars >>

NoParse == [methods |-> <<>>, imports |-> <<>>, typeDoc |-> <<>>, typeParams |-> <<>>]

NoReturn == [bytes |-> <<>>, err |-> Error("running", <<>>, 0)]

NoFormat == [fl |-> <<>>, pkgName |-> <<>>, declaredTypes |-> <<>>]

\* The declarations at the head of Make.
Declarations ==
    /\ idx = 1
    /\ allDeclaredTypes = <<>>
    /\ tset = {}
    /\ fullEmbeddingGraph = EmptyMap
    /\ excludedMethods = {}
    /\ embeddedStructNamesSet = {}
    /\ queue = <<>>
    /\ allMethods = <<>>
    /\ mset = {}
    /\ allImports = <<>>
    /\ iset = {}
    /\ typeDoc = <<>>
    /\ ifaceParams = <<>>
    /\ parsed = NoParse
    /\ calls = [ParseStruct |-> 0, MakeInterface |-> 0]
    /\ ret = NoReturn

\* A call of Make with the options o.
MakeInit(o) ==
    /\ options = o
    /\ pc = "pass1"
    /\ Declarations

Init ==
    /\ \E o \in OptionSets : MakeInit(o)
    /\ fmtIn = NoFormat
    /\ fmtOut = <<>>

\* The file behind the path at position i of options.Files.
FileAt(i) == FileSystem[options.Files[i]]

\* A file system on which a file that was read once can always be read again.
ReadableAgain(file, pass) == file.readable # "never"

\* os.ReadFile succeeds on the file in the given pass.
Readable(file, pass) ==
    \/ file.readable = "always"
    \/ file.readable = "once" /\ pass = 1

\* Make returns.
Return(bytes, err) ==
    /\ ret' = [bytes |-> bytes, err |-> err]
    /\ pc' = "done"

\* First pass, one file that is read and parses: its declared types and its
\* embedding graph are merged into the run's.
Pass1File ==
    /\ pc = "pass1"
    /\ idx <= Len(options.Files)
    /\ Readable(FileAt(idx), 1)
    /\ FileAt(idx).valid
    /\ LET types == ParseDeclaredTypes(FileAt(idx))
           graph == ParseEmbeddingGraph(FileAt(idx))
           acc == AddTypes(types, [allDeclaredTypes |-> allDeclaredTypes, tset |-> tset])
       IN  /\ allDeclaredTypes' = acc.allDeclaredTypes
           /\ tset' = acc.tset
           /\ \E order \in KeyOrders(graph) :
                 fullEmbeddingGraph' = MergeGraph(fullEmbeddingGraph, graph, order)
    /\ idx' = idx + 1
    /\ UNCHANGED << options, pc, excludedMethods, embeddedStructNamesSet, queue,
                    allMethods, mset, allImports, iset, typeDoc, ifaceParams,
                    parsed, calls, ret, fmtVars >>

\* First pass, a file os.ReadFile fails on: Make returns the error.
Pass1ReadError ==
    /\ pc = "pass1"
    /\ idx <= Len(options.Files)
    /\ ~Readable(FileAt(idx), 1)
    /\ Return(<<>>, ReadError(idx))
    /\ UNCHANGED << options, idx, allDeclaredTypes, tset, fullEmbeddingGraph,
                    excludedMethods, embeddedStructNamesSet, queue,
                    allMethods, mset, allImports, iset, typeDoc, ifaceParams,
                    parsed, calls, fmtVars >>

\* First pass, a file that does not parse: ParseDeclaredTypes ends the
\* process with log.Fatal.
Pass1Fatal ==
    /\ pc = "pass1"
    /\ idx <= Len(options.Files)
    /\ Readable(FileAt(idx), 1)
    /\ ~FileAt(idx).valid
    /\ pc' = "exited"
    /\ ret' = [bytes |-> <<>>, err |-> Error("fatal", <<>>, idx)]
    /\ UNCHANGED << options, idx, allDeclaredTypes, tset, fullEmbeddingGraph,
                    excludedMethods, embeddedStructNamesSet, queue,
                    allMethods, mset, allImports, iset, typeDoc, ifaceParams,
                    parsed, calls, fmtVars >>

\* The set of the elements of a list.
SetOf(list) == {list[i] : i \in 1..Len(list)}

\* After the first pass: the requested type is validated; when it is found,
\* the excluded names are collected and the traversal's queue is set up.
Validate ==
    /\ pc = "pass1"
    /\ idx > Len(options.Files)
    /\ IF ~validateStructType(allDeclaredTypes, options.StructType)
       THEN /\ Return(<<>>, NotFoundError(options.StructType))
            /\ UNCHANGED << excludedMethods, embeddedStructNamesSet, queue >>
       ELSE /\ excludedMethods' = SetOf(options.ExcludeMethods)
            /\ embeddedStructNamesSet' = {}
            /\ queue' = <<options.StructType>>
            /\ pc' = "closure"
            /\ UNCHANGED ret
    /\ UNCHANGED << options, idx, allDeclaredTypes, tset, fullEmbeddingGraph,
                    allMethods, mset, allImports, iset, typeDoc, ifaceParams,
                    parsed, calls, fmtVars >>

\* The most names the traversal's queue may hold when a turn starts.
MaxQueue == 4

\* One turn of the traversal's loop: the head of the queue is taken off and
\* the types it embeds are visited.
Closure ==
    /\ pc = "closure"
    /\ Len(queue) > 0
    /\ Len(queue) <= MaxQueue
    /\ LET st == ClosureStep(fullEmbeddingGraph,
                             [set |-> embeddedStructNamesSet, queue |-> queue])
       IN  /\ embeddedStructNamesSet' = st.set
           /\ queue' = st.queue
    /\ UNCHANGED << options, pc, idx, allDeclaredTypes, tset, fullEmbeddingGraph,
                    excludedMethods, allMethods, mset, allImports, iset, typeDoc,
                    ifaceParams, parsed, calls, ret, fmtVars >>

\* A traversal that may be left for the second pass with names in its queue.
ClosureAbandoned ==
    /\ pc = "closure"
    /\ pc' = "pass2"
    /\ idx' = 1
    /\ UNCHANGED << options, allDeclaredTypes, tset, fullEmbeddingGraph,
                    excludedMethods, embeddedStructNamesSet, queue,
                    allMethods, mset, allImports, iset, typeDoc, ifaceParams,
                    parsed, calls, ret, fmtVars >>

\* The traversal's loop ends on the empty queue and the second pass starts.
ClosureDone ==
    /\ pc = "closure"
    /\ Len(queue) = 0
    /\ pc' = "pass2"
    /\ idx' = 1
    /\ UNCHANGED << options, allDeclaredTypes, tset, fullEmbeddingGraph,
                    excludedMethods, embeddedStructNamesSet, queue,
                    allMethods, mset, allImports, iset, typeDoc, ifaceParams,
                    parsed, calls, ret, fmtVars >>

\* The arguments Make calls ParseStruct with.
MakeParseArgs ==
    ParseStructArgs(options.StructType, options.CopyDocs, options.CopyTypeDoc,
                    options.PkgName, allDeclaredTypes, options.ImportModule,
                    options.WithNotExported, embeddedStructNamesSet, options.WithPromoted)

\* Second pass, one file that is read: ParseStruct is run on it and what it
\* returns is merged into the run's methods, imports, type doc and parameters.
Pass2File ==
    /\ pc = "pass2"
    /\ idx <= Len(options.Files)
    /\ Readable(FileAt(idx), 2)
    /\ parsed' = ParseStruct(FileAt(idx), MakeParseArgs)
    /\ \E m \in {MergeMethods(parsed'.methods, excludedMethods,
                              [allMethods |-> allMethods, mset |-> mset])} :
          /\ allMethods' = m.allMethods
          /\ mset' = m.mset
    /\ \E i \in {MergeImports(parsed'.imports,
                              [allImports |-> allImports, iset |-> iset])} :
          /\ allImports' = i.allImports
          /\ iset' = i.iset
    /\ typeDoc' = FirstNonEmpty(typeDoc, parsed'.typeDoc)
    /\ ifaceParams' = FirstNonEmpty(ifaceParams, parsed'.typeParams)
    /\ calls' = [calls EXCEPT !.ParseStruct = @ + 1]
    /\ idx' = idx + 1
    /\ UNCHANGED << options, pc, allDeclaredTypes, tset, fullEmbeddingGraph,
                    excludedMethods, embeddedStructNamesSet, queue, ret, fmtVars >>

\* Second pass, a file os.ReadFile fails on: Make returns the error.
Pass2ReadError ==
    /\ pc = "pass2"
    /\ idx <= Len(options.Files)
    /\ ~Readable(FileAt(idx), 2)
    /\ Return(<<>>, ReadError(idx))
    /\ UNCHANGED << options, idx, allDeclaredTypes, tset, fullEmbeddingGraph,
                    excludedMethods, embeddedStructNamesSet, queue,
                    allMethods, mset, allImports, iset, typeDoc, ifaceParams,
                    parsed, calls, fmtVars >>

\* After the second pass: the interface comment is composed, MakeInterface is
\* called, and Make returns its text, or its error and no text.
Emit ==
    /\ pc = "pass2"
    /\ idx > Len(options.Files)
    /\ \E accepted \in BOOLEAN :
          LET r == MakeInterface(options.Comment, options.PkgName, options.IfaceName,
                                 ComposeIfaceComment(options.IfaceComment, typeDoc),
                                 ifaceParams, allMethods, allImports, accepted)
          IN  IF r.err # NoError THEN Return(<<>>, r.err) ELSE Return(r.bytes, NoError)
    /\ calls' = [calls EXCEPT !.MakeInterface = @ + 1]
    /\ UNCHANGED << options, idx, allDeclaredTypes, tset, fullEmbeddingGraph,
                    excludedMethods, embeddedStructNamesSet, queue,
                    allMethods, mset, allImports, iset, typeDoc, ifaceParams,
                    parsed, fmtVars >>

Next ==
    \/ Pass1File
    \/ Pass1ReadError
    \/ Pass1Fatal
    \/ Validate
    \/ Closure
    \/ ClosureDone
    \/ Pass2File
    \/ Pass2ReadError
    \/ Emit

Spec == Init /\ [][Next]_vars

\* The traversal is a loop of sequential code: while the queue is not empty
\* its next turn is taken.
FairSpec == Spec /\ WF_vars(Closure)

(***************************************************************************)
(* Calls of FormatFieldList on its own: one field list, a destination      *)
(* package and a list of declared types.                                   *)
(***************************************************************************)
pkgBar == <<"b", "a", "r">>
pkgFoobar == <<"f", "o", "o", "b", "a", "r">>
pkgMain == <<"m", "a", "i", "n">>
tType == <<"T", "y", "p", "e">>
tK == <<"K">>

\* The most prefix items (star, slice, map, chan) a formatted type carries.
MaxPrefix == 2

\* The named types: Type, bar.Type and foobar.Type, each also with a type
\* argument K or bar.K.
FmtNamed ==
    LET base == {Ident(tType), SelectorExpr(Ident(pkgBar), tType),
                 SelectorExpr(Ident(pkgFoobar), tType)}
    IN  base \cup {IndexExpr(b, k) :
                       b \in base, k \in {Ident(tK), SelectorExpr(Ident(pkgBar), tK)}}

\* The types that carry one prefix item more than a type of S.
FmtPrefixed(S) ==
    {StarExpr(e) : e \in S} \cup {ArrayType(e) : e \in S} \cup {ChanType(e) : e \in S}
    \cup {MapType(k, e) : k \in {Ident(tK), SelectorExpr(Ident(pkgBar), tK)}, e \in S}

RECURSIVE FmtTypes(_, _)
\* The types of S with at most n prefix items added.
FmtTypes(S, n) == IF n = 0 THEN S ELSE S \cup FmtTypes(FmtPrefixed(S), n - 1)

\* The declaredTypes lists of the calls.
FmtDeclared ==
    { <<>>,
      <<DeclaredType(tType, pkgBar)>>,
      <<DeclaredType(tType, pkgFoobar)>>,
      <<DeclaredType(tK, pkgBar), DeclaredType(tType, pkgMain)>> }

\* The arguments of the calls: a list of one field.
FmtCalls ==
    {[fl |-> <<Field(names, type)>>, pkgName |-> pkgName, declaredTypes |-> dts] :
        names \in {<<>>, << <<"x">> >>},
        type \in FmtTypes(FmtNamed, MaxPrefix),
        pkgName \in {pkgBar, pkgFoobar, pkgMain},
        dts \in FmtDeclared}

FmtInit ==
    /\ options = [Files |-> <<>>]
    /\ pc = "format"
    /\ Declarations
    /\ fmtIn \in FmtCalls
    /\ fmtOut = <<>>

\* The call of FormatFieldList returns.
FormatCall ==
    /\ pc = "format"
    /\ fmtOut' = FormatFieldList(fmtIn.fl, fmtIn.pkgName, fmtIn.declaredTypes)
    /\ pc' = "formatted"
    /\ UNCHANGED << options, idx, allDeclaredTypes, tset, fullEmbeddingGraph,
                    excludedMethods, embeddedStructNamesSet, queue,
                    allMethods, mset, allImports, iset, typeDoc, ifaceParams,
                    parsed, calls, ret, fmtIn >>

FmtNext == FormatCall

FmtSpec == FmtInit /\ [][FmtNext]_vars

(***************************************************************************)
(* Properties of Make and ParseStruct                                      *)
(***************************************************************************)

\* A line of a method's Lines() is its signature when it is not a doc line.
IsSignatureLine(l) == ~HasAt(l, 1, <<"/", "/">>)

\* The method name a signature line starts with.
SignatureName(l) == Slice(l, 1, IndexOf(l, <<"(">>) - 1)

\* The signature lines of the final method list.
Entries == {k \in 1..Len(allMethods) : IsSignatureLine(allMethods[k])}

\* The run has returned an interface text.
Succeeded == pc = "done" /\ ret.err = NoError

\* The methods a file declares on the receiver types named in receivers.
FileMethods(file, receivers) ==
    {file.Decls[i] : i \in {j \in 1..Len(file.Decls) :
                               /\ IsMethodDecl(file.Decls[j])
                               /\ GetReceiverTypeName(file.Decls[j]) \in receivers}}

\* The methods the files of the run declare on the named receiver types.
RunMethods(receivers) ==
    UNION {FileMethods(FileAt(f), receivers) : f \in 1..Len(options.Files)}

\* The signature the run renders a declared method with.
RunSignature(d) == MethodCode(d, options.PkgName, allDeclaredTypes)

\* The names the caller excluded.
ExcludedNames == SetOf(options.ExcludeMethods)

\* C1: the final method list of Make never holds two entries for one method
\* name, and what one call of ParseStruct returned never holds two methods
\* of one name.
AtMostOneEntryPerName ==
    /\ \A i, j \in Entries :
          SignatureName(allMethods[i]) = SignatureName(allMethods[j]) => i = j
    /\ \A i, j \in 1..Len(parsed.methods) :
          parsed.methods[i].Name = parsed.methods[j].Name => i = j

\* A run that returned a text although two of its files declare a method of
\* one name on the requested type.
DuplicateDeclarationsMerged ==
    /\ Succeeded
    /\ \E f, g \in 1..Len(options.Files) :
          /\ f < g
          /\ \E d \in FileMethods(FileAt(f), {options.StructType}),
                e \in FileMethods(FileAt(g), {options.StructType}) :
                /\ d.Name = e.Name
                /\ d.Name \notin ExcludedNames
                /\ \E k \in Entries : SignatureName(allMethods[k]) = d.Name

\* C2: with promoted methods enabled, every entry of the output for a method
\* name the requested type declares directly carries the signature of a
\* direct declaration, never that of an embedded type, whatever the order
\* and layout of the files.
DirectMethodsTakePrecedence ==
    Succeeded /\ options.WithPromoted =>
        \A k \in Entries :
            \A d \in RunMethods({options.StructType}) :
                d.Name = SignatureName(allMethods[k]) =>
                    \E e \in RunMethods({options.StructType}) :
                        e.Name = d.Name /\ allMethods[k] = RunSignature(e)

\* The file ParseStruct was last called on.
ParsedFile == FileAt(idx - 1)

\* C3: what one call of ParseStruct returns holds, for a method name the
\* requested type declares directly in that file, the signature of the
\* direct declaration and no other, wherever in the file the embedded types'
\* declarations of that name stand; the direct method is there whenever it
\* is exported or methods that are not exported were asked for.
DirectShadowsEmbeddedInOneFile ==
    calls.ParseStruct > 0 =>
        \A d \in FileMethods(ParsedFile, {options.StructType}) :
            /\ \A k \in 1..Len(parsed.methods) :
                  parsed.methods[k].Name = d.Name =>
                      \E e \in FileMethods(ParsedFile, {options.StructType}) :
                          e.Name = d.Name /\ parsed.methods[k].Code = RunSignature(e)
            /\ IsExported(d.Name) \/ options.WithNotExported =>
                  \E k \in 1..Len(parsed.methods) : parsed.methods[k].Name = d.Name

\* ParseStruct returned the direct signature for a name that an embedded
\* type declares, with another signature, earlier in the same file.
EmbeddedDeclaredBeforeDirect ==
    /\ calls.ParseStruct > 0
    /\ options.WithPromoted
    /\ \E i, j \in 1..Len(ParsedFile.Decls) :
          /\ i < j
          /\ IsMethodDecl(ParsedFile.Decls[i])
          /\ IsMethodDecl(ParsedFile.Decls[j])
          /\ GetReceiverTypeName(ParsedFile.Decls[i])
                 \in embeddedStructNamesSet \ {options.StructType}
          /\ GetReceiverTypeName(ParsedFile.Decls[j]) = options.StructType
          /\ ParsedFile.Decls[i].Name = ParsedFile.Decls[j].Name
          /\ RunSignature(ParsedFile.Decls[i]) # RunSignature(ParsedFile.Decls[j])
          /\ \E k \in 1..Len(parsed.methods) :
                parsed.methods[k].Code = RunSignature(ParsedFile.Decls[j])

RECURSIVE EmbeddedWithin(_, _, _)
\* The names reached from the names of S along at most n embedding edges.
EmbeddedWithin(graph, S, n) ==
    IF n = 0 THEN S
    ELSE EmbeddedWithin(graph, S \cup UNION {SetOf(MapGet(graph, x)) : x \in S}, n - 1)

\* The types the requested type embeds, directly or along a chain of edges
\* of the merged graph.
EmbeddingClosure ==
    EmbeddedWithin(fullEmbeddingGraph,
                   SetOf(MapGet(fullEmbeddingGraph, options.StructType)),
                   Cardinality(DOMAIN fullEmbeddingGraph))

\* C4: with promoted methods enabled, for every exported method that is not
\* excluded and is declared on a type the requested type reaches along a
\* chain of embedding edges of any length, the output has an entry of that
\* name, and the entry carries the signature of a declaration of that name
\* on the requested type or on a type of the chain.
ClosureComplete ==
    Succeeded /\ options.WithPromoted =>
        \A d \in RunMethods(EmbeddingClosure) :
            IsExported(d.Name) /\ d.Name \notin ExcludedNames =>
                \E k \in Entries :
                    /\ SignatureName(allMethods[k]) = d.Name
                    /\ \E e \in RunMethods(EmbeddingClosure \cup {options.StructType}) :
                          e.Name = d.Name /\ allMethods[k] = RunSignature(e)

\* The output holds a method that only a type two or more edges away from
\* the requested type declares.
MethodOfIndirectlyEmbeddedType ==
    /\ Succeeded
    /\ options.WithPromoted
    /\ \E d \in RunMethods(EmbeddingClosure
                           \ (SetOf(MapGet(fullEmbeddingGraph, options.StructType))
                              \cup {options.StructType})) :
          /\ \A e \in RunMethods(EmbeddingClosure \cup {options.StructType}) :
                e.Name = d.Name => e = d
          /\ \E k \in Entries : allMethods[k] = RunSignature(d)

\* C5: the traversal of the embedding graph terminates: from every point of
\* the traversal the run comes to the empty queue, also when the graph has a
\* type that embeds itself or types that embed each other.
ClosureTerminates == (pc = "closure") ~> (pc = "closure" /\ Len(queue) = 0)

\* The traversal has ended on a graph in which the requested type reaches
\* itself.
ClosureOfCycleEnded ==
    /\ pc = "closure"
    /\ Len(queue) = 0
    /\ options.StructType \in embeddedStructNamesSet

\* C6: no entry of the method list, and no method line of the returned text,
\* carries a name of the exclusion list.
ExcludedNeverAppear ==
    \A n \in ExcludedNames :
        /\ \A k \in Entries : SignatureName(allMethods[k]) # n
        /\ IndexOf(ret.bytes, <<"\n">> \o n \o <<"(">>) = 0

\* A text was returned for a run that excludes a name which the requested
\* type declares directly and a type it embeds declares too.
ExcludedDeclaredTwice ==
    /\ Succeeded
    /\ options.WithPromoted
    /\ \E d \in RunMethods({options.StructType}), e \in RunMethods(EmbeddingClosure) :
          /\ d.Name \in ExcludedNames
          /\ e.Name = d.Name
          /\ e # d

\* Some file of the run declares a type with the requested name.
TypeDeclared ==
    \E f \in 1..Len(options.Files) :
        \E i \in 1..Len(TypeSpecsOf(FileAt(f))) :
            TypeSpecsOf(FileAt(f))[i].Name = options.StructType

\* C7: when no file of the run declares a type with the requested name, the
\* run never reaches the traversal or the second pass, ParseStruct and
\* MakeInterface are never called, no text is returned, and a run whose files
\* were all read returns the error that names the requested type.
TypeNotFound ==
    ~TypeDeclared =>
        /\ pc \in {"pass1", "exited", "done"}
        /\ calls.ParseStruct = 0
        /\ calls.MakeInterface = 0
        /\ ret.bytes = <<>>
        /\ pc = "done" /\ ret.err.kind # "read" =>
              ret.err = NotFoundError(options.StructType)

\* A run over files that declare other types has returned the error.
NotFoundReturned ==
    /\ pc = "done"
    /\ ret.err = NotFoundError(options.StructType)
    /\ allDeclaredTypes # <<>>

(***************************************************************************)
(* A second run of Make on the same options, worked out as a function: its *)
(* map iterations visit the keys in one fixed order.                       *)
(***************************************************************************)

\* One order of the keys of a map.
FixedOrder(m) == CHOOSE o \in KeyOrders(m) : TRUE

\* The graph of one file merged into full, the keys taken in the fixed order.
OtherMerge(full, graph) == MergeGraph(full, graph, FixedOrder(graph))

RECURSIVE OtherPass1(_, _)
\* The first pass over the paths.  acc holds allDeclaredTypes, tset and the
\* merged graph.
OtherPass1(paths, acc) ==
    IF Len(paths) = 0 THEN acc
    ELSE OtherPass1(Tail(paths),
             [types |-> AddTypes(ParseDeclaredTypes(FileSystem[Head(paths)]), acc.types),
              graph |-> OtherMerge(acc.graph, ParseEmbeddingGraph(FileSystem[Head(paths)]))])

RECURSIVE OtherClosure(_, _)
\* The traversal, run to the empty queue.
OtherClosure(graph, st) ==
    IF Len(st.queue) = 0 THEN st.set ELSE OtherClosure(graph, ClosureStep(graph, st))

\* What the second pass makes of one file's ParseStruct result p.
OtherMergeParsed(acc, p, excluded) ==
    [methods |-> MergeMethods(p.methods, excluded, acc.methods),
     imports |-> MergeImports(p.imports, acc.imports),
     typeDoc |-> FirstNonEmpty(acc.typeDoc, p.typeDoc),
     ifaceParams |-> FirstNonEmpty(acc.ifaceParams, p.typeParams)]

RECURSIVE OtherPass2(_, _, _, _)
\* The second pass over the paths, with the arguments a of ParseStruct.
OtherPass2(paths, a, excluded, acc) ==
    IF Len(paths) = 0 THEN acc
    ELSE OtherPass2(Tail(paths), a, excluded,
             OtherMergeParsed(acc, ParseStruct(FileSystem[Head(paths)], a), excluded))

\* The second pass of the options o after a first pass that ended in first.
OtherAfterPass1(o, first) ==
    OtherPass2(o.Files,
               ParseStructArgs(o.StructType, o.CopyDocs, o.CopyTypeDoc, o.PkgName,
                               first.types.allDeclaredTypes, o.ImportModule,
                               o.WithNotExported,
                               OtherClosure(first.graph,
                                            [set |-> {}, queue |-> <<o.StructType>>]),
                               o.WithPromoted),
               SetOf(o.ExcludeMethods),
               [methods |-> [allMethods |-> <<>>, mset |-> {}],
                imports |-> [allImports |-> <<>>, iset |-> {}],
                typeDoc |-> <<>>,
                ifaceParams |-> <<>>])

\* The method list, import list, type doc and type parameters of the second
\* run, for options on which Make reaches its end.
OtherRun(o) ==
    OtherAfterPass1(o, OtherPass1(o.Files,
                                  [types |-> [allDeclaredTypes |-> <<>>, tset |-> {}],
                                   graph |-> EmptyMap]))

\* The text the second run returns for what it collected.
OtherText(o, r) ==
    MakeInterface(o.Comment, o.PkgName, o.IfaceName,
                  ComposeIfaceComment(o.IfaceComment, r.typeDoc),
                  r.ifaceParams, r.methods.allMethods, r.imports.allImports, TRUE).bytes

\* The run agrees with the outcome r of the second run.
SameOutcome(r) ==
    /\ allMethods = r.methods.allMethods
    /\ allImports = r.imports.allImports
    /\ typeDoc = r.typeDoc
    /\ ifaceParams = r.ifaceParams
    /\ ret.bytes = OtherText(options, r)

\* C8: a run that returns a text ends with the method list, the import list,
\* the type doc, the type parameters and the text of every other run on the
\* same files, file order and options, whatever the order in which its map
\* iterations visited the keys of the files' embedding graphs.
Deterministic == Succeeded => SameOutcome(OtherRun(options))

\* A text was returned, with promoted methods, by a run in which the graph of
\* a file had more than one key to iterate over.
SeveralKeyOrders ==
    /\ Succeeded
    /\ options.WithPromoted
    /\ embeddedStructNamesSet # {}
    /\ \E f \in 1..Len(options.Files) :
          Cardinality(KeyOrders(ParseEmbeddingGraph(FileAt(f)))) > 1

(***************************************************************************)
(* Properties of FormatFieldList                                           *)
(***************************************************************************)

\* The field of the call.
FmtField == fmtIn.fl[1]

RECURSIVE IsPlainType(_)
\* A type p T g: a bare identifier T under star, slice and map prefix items
\* and with or without a type argument, no part of which is qualified.
IsPlainType(e) ==
    CASE e.kind = "Ident" -> TRUE
      [] e.kind = "StarExpr" -> IsPlainType(e.x)
      [] e.kind = "ArrayType" -> IsPlainType(e.elt)
      [] e.kind = "MapType" -> e.key.kind = "Ident" /\ IsPlainType(e.value)
      [] e.kind = "IndexExpr" -> e.x.kind = "Ident" /\ e.index.kind = "Ident"
      [] OTHER -> FALSE

RECURSIVE QualifiedBy(_, _)
\* The type p pkg.T g for the plain type p T g.
QualifiedBy(e, pkg) ==
    CASE e.kind = "Ident" -> SelectorExpr(Ident(pkg), e.name)
      [] e.kind = "StarExpr" -> StarExpr(QualifiedBy(e.x, pkg))
      [] e.kind = "ArrayType" -> ArrayType(QualifiedBy(e.elt, pkg))
      [] e.kind = "MapType" -> MapType(e.key, QualifiedBy(e.value, pkg))
      [] e.kind = "IndexExpr" -> IndexExpr(QualifiedBy(e.x, pkg), e.index)

\* The positions in declaredTypes of the declarations of the field's base
\* name.
BaseDeclarations ==
    {i \in 1..Len(fmtIn.declaredTypes) :
        fmtIn.declaredTypes[i].Name = baseIdentName(FmtField.Type)}

\* The package that declares the field's base name, when there is one such
\* declaration.
DeclaringPackage == fmtIn.declaredTypes[CHOOSE i \in BaseDeclarations : TRUE].Package

\* C9: a field of a plain type p T g whose T is declared in one package is
\* rendered as p pkg2.T g when the destination package is another one, and
\* as p T g when it is the declaring package.
CrossPackageQualification ==
    /\ pc = "formatted"
    /\ IsPlainType(FmtField.Type)
    /\ Cardinality(BaseDeclarations) = 1
    => fmtOut = << WithNames(FmtField.Names,
                             ExprText(IF fmtIn.pkgName # DeclaringPackage
                                      THEN QualifiedBy(FmtField.Type, DeclaringPackage)
                                      ELSE FmtField.Type)) >>

\* The positions at which the qualifier q stands in t at the start of the
\* text or after a character that is not an identifier character.
QualifierStarts(t, q) ==
    {i \in 1..Len(t) : HasAt(t, i, q) /\ (i = 1 \/ ~IsWordChar(t[i - 1]))}

\* The positions of t that such an occurrence of q covers.
QualifierPositions(t, q) ==
    {k \in 1..Len(t) : \E i \in QualifierStarts(t, q) : i <= k /\ k < i + Len(q)}

RECURSIVE Without(_, _, _)
\* t from position k on, without the characters at the positions of drop.
Without(t, k, drop) ==
    IF k > Len(t) THEN <<>>
    ELSE (IF k \in drop THEN <<>> ELSE <<t[k]>>) \o Without(t, k + 1, drop)

\* The type text of the field before the destination package is stripped.
FmtQualified ==
    Qualify(ExprText(FmtField.Type), baseIdentName(FmtField.Type),
            fmtIn.pkgName, fmtIn.declaredTypes)

\* The destination package's qualifier.
DestQualifier == fmtIn.pkgName \o <<".">>

\* C10: the formatted type is the type text without every occurrence of the
\* destination package's qualifier that stands at the start of the text or
\* after a character that is not an identifier character; every other
\* character, and so a qualifier that only ends with the destination
\* package's name, is kept.
DestinationPackageStripped ==
    pc = "formatted" =>
        fmtOut = << WithNames(FmtField.Names,
                              Without(FmtQualified, 1,
                                      QualifierPositions(FmtQualified, DestQualifier))) >>

\* A type was formatted in which the destination package's qualifier stands
\* after a prefix item and, in another place, at the end of a longer
\* qualifier.
QualifierAfterPrefixItem ==
    /\ pc = "formatted"
    /\ \E i \in QualifierStarts(FmtQualified, DestQualifier) : i > 1
    /\ \E i \in 1..Len(FmtQualified) :
          /\ HasAt(FmtQualified, i, DestQualifier)
          /\ i \notin QualifierStarts(FmtQualified, DestQualifier)
    /\ Len(fmtOut[1]) < Len(WithNames(FmtField.Names, FmtQualified))

(***************************************************************************)
(* Properties of the second pass                                           *)
(***************************************************************************)

\* The positions in options.Files of the files ParseStruct was called on.
ParsedFiles == 1..calls.ParseStruct

RECURSIVE FirstNonEmptyIn(_)
\* The first text of a list that is not empty; the empty text when none is.
FirstNonEmptyIn(list) ==
    IF Len(list) = 0 THEN <<>>
    ELSE IF Head(list) # <<>> THEN Head(list)
    ELSE FirstNonEmptyIn(Tail(list))

\* The type doc ParseStruct returns for the file at position f: the doc of
\* the requested type's declaration in it, when type docs are copied.
TypeDocAt(f) ==
    IF options.CopyTypeDoc
    THEN TypeDocOf(TypeSpecsOf(FileAt(f)), options.StructType, <<>>)
    ELSE <<>>

\* The type parameter clause ParseStruct returns for the file at position f.
TypeParamsAt(f) == TypeParamsOf(TypeSpecsOf(FileAt(f)), options.StructType, <<>>)

\* C11: at every point of the second pass the retained type doc and the
\* retained type parameter clause are each the first non-empty value that
\* ParseStruct returned for the files walked so far, in input order; so a
\* later file never changes a value that is set.
FirstWinsFields ==
    /\ typeDoc = FirstNonEmptyIn([f \in ParsedFiles |-> TypeDocAt(f)])
    /\ ifaceParams = FirstNonEmptyIn([f \in ParsedFiles |-> TypeParamsAt(f)])
    /\ calls.ParseStruct > 0 =>
          /\ parsed.typeDoc = TypeDocAt(calls.ParseStruct)
          /\ parsed.typeParams = TypeParamsAt(calls.ParseStruct)

\* Two files of the run gave different type docs, neither of them empty, and
\* the one of the earlier file is retained.
LaterValuesIgnored ==
    /\ \E f, g \in ParsedFiles :
          /\ f < g
          /\ TypeDocAt(f) # <<>>
          /\ TypeDocAt(g) # <<>>
          /\ TypeDocAt(f) # TypeDocAt(g)
          /\ typeDoc = TypeDocAt(f)

\* The import lines ParseStruct returned for the files walked so far, in
\* input order.
ParsedImports ==
    Flatten([f \in ParsedFiles |-> ImportLines(FileAt(f), options.ImportModule)])

\* The positions of a list at which a value stands for the first time.
FirstOccurrences(list) ==
    {i \in 1..Len(list) : \A j \in 1..(i - 1) : list[j] # list[i]}

\* The values of a list at the positions of the set S, in the list's order.
Pick(list, S) ==
    [k \in 1..Cardinality(S) |->
        list[CHOOSE i \in S : Cardinality({j \in S : j <= i}) = k]]

\* A list without the later occurrences of its values.
WithoutRepeats(list) == Pick(list, FirstOccurrences(list))

\* C12: the import list holds no line twice, and it holds every line that
\* ParseStruct returned for a file walked so far once, at the place of its
\* first occurrence in input order, the import override's line included.
ImportsDeduplicated ==
    /\ \A i, j \in 1..Len(allImports) : allImports[i] = allImports[j] => i = j
    /\ allImports = WithoutRepeats(ParsedImports)
    /\ calls.ParseStruct > 0 =>
          parsed.imports = ImportLines(ParsedFile, options.ImportModule)

\* A text was returned for two files that carry the same import and the same
\* import override entry, and for more than one import line.
SameImportInTwoFiles ==
    /\ Succeeded
    /\ options.ImportModule # <<>>
    /\ Len(allImports) > 2
    /\ \E f, g \in ParsedFiles :
          /\ f < g
          /\ \E i \in 1..Len(FileAt(f).Imports), j \in 1..Len(FileAt(g).Imports) :
                FileAt(f).Imports[i] = FileAt(g).Imports[j]

\* The names ParseStruct's methodSet holds at the end of its run on the file
\* at position f.
MethodSetAt(f) == ExtractMethods(FileAt(f), MakeParseArgs).methodSet

\* C13: while methods that are not exported are not asked for, no such
\* method is an entry of the method list or of a ParseStruct result, and no
\* such name is held in mset or in the methodSet of the last call of
\* ParseStruct; when they are asked for,
\* every method of the requested type that is not exported, not excluded and
\* declared in a file walked so far has an entry.
UnexportedFilter ==
    /\ ~options.WithNotExported =>
          /\ \A k \in Entries : IsExported(SignatureName(allMethods[k]))
          /\ \A k \in 1..Len(parsed.methods) : IsExported(parsed.methods[k].Name)
          /\ \A n \in mset : IsExported(n)
          /\ calls.ParseStruct > 0 =>
                \A n \in MethodSetAt(calls.ParseStruct) : IsExported(n)
    /\ options.WithNotExported =>
          \A f \in ParsedFiles :
              \A d \in FileMethods(FileAt(f), {options.StructType}) :
                  ~IsExported(d.Name) /\ d.Name \notin ExcludedNames =>
                      \E k \in Entries : SignatureName(allMethods[k]) = d.Name

\* A text with methods was returned, without the methods that are not
\* exported, for a run in which the requested type declares such a method
\* and a type it embeds declares one too.
UnexportedDirectAndPromoted ==
    /\ Succeeded
    /\ ~options.WithNotExported
    /\ options.WithPromoted
    /\ Entries # {}
    /\ \E d \in RunMethods({options.StructType}) : ~IsExported(d.Name)
    /\ \E e \in RunMethods(EmbeddingClosure \ {options.StructType}) : ~IsExported(e.Name)

\* The receiver types whose methods the run may put out: the requested type
\* and, with promoted methods, the types it embeds directly or along a chain.
AllowedReceivers ==
    IF options.WithPromoted
    THEN EmbeddingClosure \cup {options.StructType}
    ELSE {options.StructType}

\* C14: without promoted methods every entry of the method list, and every
\* method ParseStruct returns, is a method declared on the requested type;
\* with them, every other entry is a method declared on a type of the
\* embedding closure.
PromotedOptIn ==
    /\ \A k \in Entries :
          \E d \in RunMethods(AllowedReceivers) :
              /\ d.Name = SignatureName(allMethods[k])
              /\ allMethods[k] = RunSignature(d)
    /\ \A k \in 1..Len(parsed.methods) :
          \E d \in FileMethods(ParsedFile, AllowedReceivers) :
              /\ parsed.methods[k].Name = d.Name
              /\ parsed.methods[k].Code = RunSignature(d)

\* A text with methods was returned, without promoted methods, for a type
\* that embeds a type with an exported method the type itself does not
\* declare.
EmbeddedMethodsLeftOut ==
    /\ Succeeded
    /\ ~options.WithPromoted
    /\ Entries # {}
    /\ \E e \in RunMethods(EmbeddingClosure \ {options.StructType}) :
          /\ IsExported(e.Name)
          /\ e.Name \notin ExcludedNames
          /\ \A d \in RunMethods({options.StructType}) : d.Name # e.Name

(***************************************************************************)
(* Properties of the error paths.                                          *)
(***************************************************************************)

\* The run ended on a file: os.ReadFile failed on it, or it did not parse.
FailedOnFile == ret.err.kind \in {"read", "fatal"}

\* The pass of Make a state with the given position is in.
PassAt(position) == IF position = "pass1" THEN 1 ELSE 2

\* The file at position i of the input cannot be read in the given pass, or
\* is not syntactically valid.
BadFile(i, pass) ==
    \/ FileAt(i).readable = "never"
    \/ FileAt(i).readable = "once" /\ pass > 1
    \/ ~FileAt(i).valid

\* The files are the same, and the counters and the collected lines too.
NothingProcessed ==
    /\ idx' = idx
    /\ calls' = calls
    /\ parsed' = parsed
    /\ allMethods' = allMethods
    /\ allImports' = allImports
    /\ allDeclaredTypes' = allDeclaredTypes

\* C15: a loop of Make goes past a file only when the file can be read and
\* parses; the step that meets a file that cannot be read or does not parse
\* ends the run at that file, the first such file of the pass, with no text,
\* without calling MakeInterface and without processing any file; no step
\* follows it.
FailFastStep ==
    /\ ~FailedOnFile
    /\ (pc' = pc /\ idx' = idx + 1) => ~BadFile(idx, PassAt(pc))
    /\ calls'.MakeInterface > calls.MakeInterface =>
          \A i \in 1..Len(options.Files) : ~BadFile(i, 1) /\ ~BadFile(i, 2)
    /\ FailedOnFile' =>
          /\ pc \in {"pass1", "pass2"}
          /\ pc' \in {"done", "exited"}
          /\ idx <= Len(options.Files)
          /\ BadFile(idx, PassAt(pc))
          /\ \A i \in 1..(idx - 1) : ~BadFile(i, PassAt(pc))
          /\ ret'.err.file = idx
          /\ ret'.bytes = <<>>
          /\ calls.MakeInterface = 0
          /\ calls.ParseStruct = (IF pc = "pass2" THEN idx - 1 ELSE 0)
          /\ NothingProcessed

FailFast == [][FailFastStep]_vars

\* The second pass ended on the first of two files, with a read error.
SecondPassStoppedAtFirstFile ==
    /\ pc = "done"
    /\ ret.err = ReadError(1)
    /\ Len(options.Files) = 2
    /\ tset # {}

\* The text Make hands to the emitter from the state it is in.
EmittedCode ==
    InterfaceCode(options.Comment, options.PkgName, options.IfaceName,
                  ComposeIfaceComment(options.IfaceComment, typeDoc),
                  ifaceParams, allMethods, allImports)

\* What the formatter can say of a text: its formatted form and no error, or
\* its error and no text.
FormatterOutcome(code, accepted) ==
    IF accepted
    THEN [bytes |-> Formatted(code), err |-> NoError]
    ELSE [bytes |-> <<>>, err |-> SyntaxError]

\* C16: the step of Make that calls MakeInterface returns what the formatter
\* returned for the assembled text: the formatter's error and no text when
\* it rejects the text, the formatted text and no error when it accepts it;
\* MakeInterface itself returns exactly these two results.
FormatterResultReturnedStep ==
    calls'.MakeInterface > calls.MakeInterface =>
        /\ pc' = "done"
        /\ \E accepted \in BOOLEAN : ret' = FormatterOutcome(EmittedCode, accepted)
        /\ \A accepted \in BOOLEAN :
              MakeInterface(options.Comment, options.PkgName, options.IfaceName,
                            ComposeIfaceComment(options.IfaceComment, typeDoc),
                            ifaceParams, allMethods, allImports, accepted)
                  = FormatterOutcome(EmittedCode, accepted)

FormatterResultReturned == [][FormatterResultReturnedStep]_vars

\* The formatter rejected a text with methods in it.
FormatterRejectedMethods ==
    /\ pc = "done"
    /\ calls.MakeInterface = 1
    /\ ret = [bytes |-> <<>>, err |-> SyntaxError]
    /\ Entries # {}

(***************************************************************************)
(* Properties of the order and origin of the methods.                      *)
(***************************************************************************)

\* The method names of the final method list, in its order.
EntryNames ==
    LET sigs == SelectSeq(allMethods, IsSignatureLine)
    IN  [k \in 1..Len(sigs) |-> SignatureName(sigs[k])]

\* A declaration whose method the run accepts when its receiver is wanted:
\* exported, or unexported methods were asked for, and not excluded.
Acceptable(d) ==
    /\ IsMethodDecl(d)
    /\ IsExported(d.Name) \/ options.WithNotExported
    /\ d.Name \notin ExcludedNames

\* The requested type is the receiver of a declaration.
IsDirectDecl(d) == Acceptable(d) /\ GetReceiverTypeName(d) = options.StructType

\* A type of the embedding closure is the receiver of a declaration, in a
\* run with promoted methods.
IsPromotedDecl(d) ==
    /\ options.WithPromoted
    /\ Acceptable(d)
    /\ GetReceiverTypeName(d) \in EmbeddingClosure

\* The acceptable declarations of a file in the order the run meets them:
\* the direct ones in declaration order, then the promoted ones in
\* declaration order.
OccurrencesIn(file) ==
    SelectSeq(file.Decls, IsDirectDecl) \o SelectSeq(file.Decls, IsPromotedDecl)

\* The acceptable declarations of the files walked so far, in input order.
Occurrences == Flatten([f \in ParsedFiles |-> OccurrencesIn(FileAt(f))])

\* The names of a list of declarations.
NamesOf(decls) == [k \in 1..Len(decls) |-> decls[k].Name]

\* C17: the method names of the final method list are the names of the
\* acceptable declarations of the files walked so far, in the order of
\* their first occurrence: files in input order and, in one file, direct
\* methods in declaration order and then promoted methods in declaration
\* order.
StableMethodOrder == EntryNames = WithoutRepeats(NamesOf(Occurrences))

\* A text was returned whose method list takes a direct method of the
\* second file after a promoted method of the first file, and more than one
\* method from the first file.
PromotedOfFirstBeforeDirectOfSecond ==
    /\ Succeeded
    /\ Len(options.Files) = 2
    /\ Len(EntryNames) > 2
    /\ \E i, j \in 1..Len(EntryNames) :
          /\ i < j
          /\ \E d \in FileMethods(FileAt(1), EmbeddingClosure \ {options.StructType}) :
                d.Name = EntryNames[i]
          /\ \A d \in FileMethods(FileAt(1), {options.StructType}) :
                d.Name # EntryNames[i]
          /\ \E d \in FileMethods(FileAt(2), {options.StructType}) :
                d.Name = EntryNames[j]
          /\ \A d \in RunMethods({options.StructType}) \ FileMethods(FileAt(2), {options.StructType}) :
                d.Name # EntryNames[j]

\* The lines the run renders a declared method with: its doc lines, when
\* docs are copied, and its signature.
RunLines(d) == (IF options.CopyDocs THEN d.Doc ELSE <<>>) \o <<RunSignature(d)>>

\* The occurrences that are the first of their name, in their order.
FirstOfName == Pick(Occurrences, FirstOccurrences(NamesOf(Occurrences)))

\* The lines of a list of declarations, one declaration after the other.
LinesOf(decls) == Flatten([k \in 1..Len(decls) |-> RunLines(decls[k])])

\* C18: the final method list is made of the doc lines and the signature of
\* the first acceptable occurrence of every method name, files taken in
\* input order, and of nothing else: an occurrence of the name in a later
\* file adds no line and changes none.
FirstFileWins == allMethods = LinesOf(FirstOfName)

\* A text was returned for two files that both hold an acceptable method of
\* one name, with different signatures and different docs, and the method
\* list has the lines of the first file's.
SameNameInTwoFiles ==
    /\ Succeeded
    /\ Len(options.Files) = 2
    /\ \E i \in 1..Len(OccurrencesIn(FileAt(1))), j \in 1..Len(OccurrencesIn(FileAt(2))) :
          /\ OccurrencesIn(FileAt(1))[i].Name = OccurrencesIn(FileAt(2))[j].Name
          /\ RunSignature(OccurrencesIn(FileAt(1))[i]) # RunSignature(OccurrencesIn(FileAt(2))[j])
          /\ OccurrencesIn(FileAt(1))[i].Doc # OccurrencesIn(FileAt(2))[j].Doc
          /\ \E k \in Entries : allMethods[k] = RunSignature(OccurrencesIn(FileAt(1))[i])

RECURSIVE WithoutEntriesOf(_, _, _)
\* A method list without the entries, doc lines and signature, of the names
\* in the set names.  docs holds the doc lines met since the last signature.
WithoutEntriesOf(lines, docs, names) ==
    IF Len(lines) = 0 THEN <<>>
    ELSE IF ~IsSignatureLine(Head(lines))
         THEN WithoutEntriesOf(Tail(lines), Append(docs, Head(lines)), names)
         ELSE (IF SignatureName(Head(lines)) \in names
               THEN <<>> ELSE Append(docs, Head(lines)))
              \o WithoutEntriesOf(Tail(lines), <<>>, names)

\* The method list of the run of the same options with nothing excluded.
UnfilteredMethods == OtherRun([options EXCEPT !.ExcludeMethods = <<>>]).methods.allMethods

\* C19: the method list of a run that returns a text is the method list of
\* the run of the same files and options with an empty exclusion list, less
\* the entries of the excluded names: every other entry is there with the
\* same signature and docs at the same relative place, and no entry of an
\* excluded name is.
ExclusionIndependent ==
    Succeeded => allMethods = WithoutEntriesOf(UnfilteredMethods, <<>>, ExcludedNames)

\* A text with methods was returned for a run that excludes a name which
\* the requested type declares and a type it embeds declares too, and from
\* whose unfiltered method list lines had to be removed.
ExcludedDirectWithPromotedTwin ==
    /\ Succeeded
    /\ options.WithPromoted
    /\ Entries # {}
    /\ Len(UnfilteredMethods) > Len(allMethods)
    /\ \E d \in RunMethods({options.StructType}),
          e \in RunMethods(EmbeddingClosure \ {options.StructType}) :
          /\ d.Name \in ExcludedNames
          /\ e.Name = d.Name

(***************************************************************************)
(* Properties of the order of the passes.                                  *)
(***************************************************************************)

\* The types a file embeds in some struct.
EmbeddedIn(file) ==
    UNION {SetOf(ParseEmbeddingGraph(file)[k]) : k \in DOMAIN ParseEmbeddingGraph(file)}

\* The declared types and the embedding edges of every file of the run are
\* in the run's collections.
AllFilesAccumulated ==
    \A f \in 1..Len(options.Files) :
        /\ \A i \in 1..Len(ParseDeclaredTypes(FileAt(f))) :
              /\ Fullname(ParseDeclaredTypes(FileAt(f))[i]) \in tset
              /\ ParseDeclaredTypes(FileAt(f))[i] \in SetOf(allDeclaredTypes)
        /\ \A k \in DOMAIN ParseEmbeddingGraph(FileAt(f)) :
              SetOf(ParseEmbeddingGraph(FileAt(f))[k])
                  \subseteq SetOf(MapGet(fullEmbeddingGraph, k))

\* C20: every step that calls ParseStruct is taken in the second pass, when
\* the declared types and embedding edges of all files of the run are
\* collected, the traversal's queue is empty and the set it filled is the
\* embedding closure of the requested type; so, with promoted methods, what
\* ParseStruct returns for a file holds a method for every wanted name the
\* file declares on a type of the closure, whichever file declares the edge
\* to that type.
PipelineOrderStep ==
    calls'.ParseStruct > calls.ParseStruct =>
        /\ pc = "pass2"
        /\ AllFilesAccumulated
        /\ Len(queue) = 0
        /\ embeddedStructNamesSet = EmbeddingClosure
        /\ options.WithPromoted =>
              \A d \in FileMethods(FileAt(idx), EmbeddingClosure) :
                  IsExported(d.Name) \/ options.WithNotExported =>
                      \E k \in 1..Len(parsed'.methods) : parsed'.methods[k].Name = d.Name

PipelineOrder == [][PipelineOrderStep]_vars

\* A text was returned with an entry for a method that only an embedded
\* type declares, in the first file, while no struct of the first file
\* embeds that type: the edge to it is in the second file.
PromotedAcrossLaterEdge ==
    /\ Succeeded
    /\ options.WithPromoted
    /\ Len(options.Files) = 2
    /\ \E d \in FileMethods(FileAt(1), EmbeddingClosure \ {options.StructType}) :
          /\ GetReceiverTypeName(d) \notin EmbeddedIn(FileAt(1))
          /\ GetReceiverTypeName(d) \in EmbeddedIn(FileAt(2))
          /\ \A e \in RunMethods(EmbeddingClosure \cup {options.StructType}) :
                e.Name = d.Name => e = d
          /\ \E k \in Entries : allMethods[k] = RunSignature(d)

(***************************************************************************)
(* Properties of the traversal.                                            *)
(***************************************************************************)

\* The names a turn of the traversal appended to the queue.
Appended == SubSeq(queue', Len(queue), Len(queue'))

\* No value stands twice in a list.
NoRepeats(list) == \A i, j \in 1..Len(list) : list[i] = list[j] => i = j

\* C21: a turn of the traversal takes the head off the queue and appends
\* only names that were not in the set, each of them once, and enters
\* exactly these names in the set; no other step changes the set or the
\* queue once the traversal has started.  So a name is entered and appended
\* at most once, whatever the number of edges that lead to it.
NoDuplicateVisitStep ==
    /\ pc = "closure" /\ pc' = "closure" =>
          /\ Len(queue) > 0
          /\ Len(queue') >= Len(queue) - 1
          /\ SubSeq(queue', 1, Len(queue) - 1) = Tail(queue)
          /\ NoRepeats(Appended)
          /\ \A i \in 1..Len(Appended) : Appended[i] \notin embeddedStructNamesSet
          /\ embeddedStructNamesSet' = embeddedStructNamesSet \cup SetOf(Appended)
    /\ ~(pc = "closure" /\ pc' = "closure") /\ pc # "pass1" =>
          /\ embeddedStructNamesSet' = embeddedStructNamesSet
          /\ queue' = queue
    /\ pc = "pass1" /\ pc' = "closure" =>
          /\ embeddedStructNamesSet' = {}
          /\ queue' = <<options.StructType>>

NoDuplicateVisit == [][NoDuplicateVisitStep]_vars

\* The places of the name n in the list the merged graph holds for x.
EdgesFromTo(x, n) ==
    {i \in 1..Len(MapGet(fullEmbeddingGraph, x)) : MapGet(fullEmbeddingGraph, x)[i] = n}

\* The traversal has ended with a name in the set to which a repeated edge
\* leads, contributed by two different files.
ReachedAlongSeveralEdges ==
    /\ pc = "pass2"
    /\ Len(options.Files) = 2
    /\ options.Files[1] # options.Files[2]
    /\ \E n \in embeddedStructNamesSet :
          \E x \in embeddedStructNamesSet \cup {options.StructType} :
              /\ Cardinality(EdgesFromTo(x, n)) > 1
              /\ \A f \in 1..2 : n \in SetOf(MapGet(ParseEmbeddingGraph(FileAt(f)), x))

(***************************************************************************)
(* Properties of the first pass.                                           *)
(***************************************************************************)

\* The positions of the files the first pass has gone past.
FirstPassFiles ==
    IF pc = "pass1" THEN 1..(idx - 1)
    ELSE IF pc \in {"closure", "pass2"} THEN 1..Len(options.Files)
    ELSE {}

\* C22: the list of declared types never holds a pair of name and package
\* twice, whatever the files redeclare, and it holds every pair a file the
\* first pass has gone past declares, so that types of one name in two
\* packages are both in it.
DeclaredTypesUnique ==
    /\ \A i, j \in 1..Len(allDeclaredTypes) :
          /\ allDeclaredTypes[i].Name = allDeclaredTypes[j].Name
          /\ allDeclaredTypes[i].Package = allDeclaredTypes[j].Package
          => i = j
    /\ \A f \in FirstPassFiles :
          \A i \in 1..Len(TypeSpecsOf(FileAt(f))) :
              \E k \in 1..Len(allDeclaredTypes) :
                  /\ allDeclaredTypes[k].Name = TypeSpecsOf(FileAt(f))[i].Name
                  /\ allDeclaredTypes[k].Package = FileAt(f).Name

\* The first pass has gone past two different files of one package that
\* declare the same type.
RedeclaredInOnePackage ==
    /\ pc = "pass1"
    /\ idx = 3
    /\ options.Files[1] # options.Files[2]
    /\ FileAt(1).Name = FileAt(2).Name
    /\ \E i \in 1..Len(TypeSpecsOf(FileAt(1))), j \in 1..Len(TypeSpecsOf(FileAt(2))) :
          TypeSpecsOf(FileAt(1))[i].Name = TypeSpecsOf(FileAt(2))[j].Name

\* The orders in which a list of files can be given.
FileOrders(files) ==
    {[i \in 1..Len(files) |-> files[o[i]]] : o \in KeyOrders(files)}

\* The first pass over the files in the given order.
FirstPassOf(files) ==
    OtherPass1(files, [types |-> [allDeclaredTypes |-> <<>>, tset |-> {}],
                       graph |-> EmptyMap])

\* The set the traversal ends with after the first pass over the files in
\* the given order.
ClosureOf(files) ==
    OtherClosure(FirstPassOf(files).graph, [set |-> {}, queue |-> <<options.StructType>>])

\* C23: when the first pass and the traversal of a run have ended, the set
\* of declared types, the outcome of the validation of the requested type
\* and the set of embedded type names are those of the first pass and
\* traversal over every other order of the same files.
FirstPassOrderIndependentStep ==
    /\ pc = "pass1" /\ pc' \in {"closure", "done"} /\ idx > Len(options.Files) =>
          \A files \in FileOrders(options.Files) :
              /\ SetOf(FirstPassOf(files).types.allDeclaredTypes) = SetOf(allDeclaredTypes)
              /\ FirstPassOf(files).types.tset = tset
              /\ validateStructType(FirstPassOf(files).types.allDeclaredTypes,
                                    options.StructType) <=> pc' = "closure"
    /\ pc = "closure" /\ pc' = "pass2" =>
          \A files \in FileOrders(options.Files) :
              ClosureOf(files) = embeddedStructNamesSet

FirstPassOrderIndependent == [][FirstPassOrderIndependentStep]_vars

\* The files in the opposite order.
Reversed(files) == [i \in 1..Len(files) |-> files[Len(files) + 1 - i]]

\* The traversal has ended with names in its set for a run whose files,
\* given in the opposite order, make another list of declared types and
\* another merged graph.
OrderChangesLists ==
    /\ pc = "pass2"
    /\ embeddedStructNamesSet # {}
    /\ FirstPassOf(Reversed(options.Files)).types.allDeclaredTypes # allDeclaredTypes
    /\ FirstPassOf(Reversed(options.Files)).graph # fullEmbeddingGraph

\* The signature lines of a method list, as a set.
SignaturesOf(lines) == {lines[k] : k \in {j \in 1..Len(lines) : IsSignatureLine(lines[j])}}

\* The run of the same options over the files in the given order.
RunOver(files) == OtherRun([options EXCEPT !.Files = files])

\* C24: a run that returns a text has the set of method signatures and the
\* set of import lines of the run over every other order of the same files.
SecondPassCommutative ==
    Succeeded =>
        \A files \in FileOrders(options.Files) :
            /\ SignaturesOf(RunOver(files).methods.allMethods) = SignaturesOf(allMethods)
            /\ SetOf(RunOver(files).imports.allImports) = SetOf(allImports)

RECURSIVE VisitOrder(_, _, _)
\* The names in the order in which the traversal of the graph enters them in
\* its set.  st holds the set and the queue, order the names entered so far.
VisitOrder(graph, st, order) ==
    IF Len(st.queue) = 0 THEN order
    ELSE VisitOrder(graph, ClosureStep(graph, st),
                    order \o SubSeq(ClosureStep(graph, st).queue,
                                    Len(st.queue), Len(ClosureStep(graph, st).queue)))

\* The order in which the traversal of the run reached the embedded types.
TraversalOrder ==
    VisitOrder(fullEmbeddingGraph, [set |-> {}, queue |-> <<options.StructType>>], <<>>)

\* The place of an embedded type in the order of the traversal.
Rank(order, n) == CHOOSE i \in 1..Len(order) : order[i] = n

\* The declaration d is, among the declarations of D, one of a type the
\* traversal reached first.
ReachedFirst(d, D, order) ==
    \A e \in D : Rank(order, GetReceiverTypeName(d)) <= Rank(order, GetReceiverTypeName(e))

\* The methods of the given name that the embedded types of the run declare.
PromotedNamed(name) == {d \in RunMethods(embeddedStructNamesSet) : d.Name = name}

\* C25: in a run with promoted methods that returns a text, an entry for a
\* method name the requested type does not declare carries the signature of
\* the declaration on the embedded type the traversal reached first among
\* the embedded types that declare the name.
ShadowingFollowsTraversal ==
    Succeeded /\ options.WithPromoted =>
        \A k \in Entries :
            (\A d \in RunMethods({options.StructType}) : d.Name # SignatureName(allMethods[k]))
            => \E d \in PromotedNamed(SignatureName(allMethods[k])) :
                  /\ allMethods[k] = RunSignature(d)
                  /\ ReachedFirst(d, PromotedNamed(SignatureName(allMethods[k])), TraversalOrder)

(***************************************************************************)
(* Properties of the matching of receivers.                                *)
(***************************************************************************)

RECURSIVE ReceiverBase(_)
\* The base name of a receiver type: the identifier behind a pointer and in
\* front of generic arguments.
ReceiverBase(expr) ==
    CASE expr.kind = "Ident" -> expr.name
      [] expr.kind = "StarExpr" -> ReceiverBase(expr.x)
      [] expr.kind = "IndexExpr" -> ReceiverBase(expr.x)
      [] expr.kind = "IndexListExpr" -> ReceiverBase(expr.x)
      [] OTHER -> <<>>

\* The method declarations of a file that are wanted by their name and
\* whose receiver has a base name of the set names, whatever the package
\* of the file.
MatchedByBaseName(file, names) ==
    {file.Decls[i] : i \in {j \in 1..Len(file.Decls) :
        /\ IsMethodDecl(file.Decls[j])
        /\ ReceiverBase(file.Decls[j].Recv[1].Type) \in names
        /\ IsExported(file.Decls[j].Name) \/ options.WithNotExported}}

\* The base names the run takes methods from.
MatchedNames ==
    {options.StructType} \cup (IF options.WithPromoted THEN EmbeddingClosure ELSE {})

\* C26: what ParseStruct returns for a file holds a method for exactly the
\* wanted method names the file declares on a receiver whose base name,
\* behind a pointer and without generic arguments, is the requested name
\* or, with promoted methods, a name of the closure; the package of the
\* file and the package that declares the type play no part.  The merged
\* graph holds under a bare name the embedded types of every file that
\* declares a struct of that name.
MatchedByBareNameStep ==
    calls'.ParseStruct > calls.ParseStruct =>
        /\ {parsed'.methods[k].Name : k \in 1..Len(parsed'.methods)}
              = {d.Name : d \in MatchedByBaseName(FileAt(idx), MatchedNames)}
        /\ \A k \in 1..Len(parsed'.methods) :
              \E d \in MatchedByBaseName(FileAt(idx), MatchedNames) :
                  /\ d.Name = parsed'.methods[k].Name
                  /\ parsed'.methods[k].Code = RunSignature(d)
        /\ \A f \in 1..Len(options.Files) :
              \A k \in DOMAIN ParseEmbeddingGraph(FileAt(f)) :
                  SetOf(ParseEmbeddingGraph(FileAt(f))[k])
                      \subseteq SetOf(MapGet(fullEmbeddingGraph, k))

MatchedByBareName == [][MatchedByBareNameStep]_vars

\* A text was returned for two files of different packages that both
\* declare a struct of the requested name with an embedded type; the method
\* list has a method of each file's type and the closure an embedded type of
\* each.
TwoPackagesMerged ==
    /\ Succeeded
    /\ Len(options.Files) = 2
    /\ FileAt(1).Name # FileAt(2).Name
    /\ \A f \in 1..2 :
          /\ \E i \in 1..Len(TypeSpecsOf(FileAt(f))) :
                TypeSpecsOf(FileAt(f))[i].Name = options.StructType
          /\ \E n \in SetOf(MapGet(ParseEmbeddingGraph(FileAt(f)), options.StructType)) :
                /\ n \in embeddedStructNamesSet
                /\ n \notin SetOf(MapGet(ParseEmbeddingGraph(FileAt(3 - f)), options.StructType))
          /\ \E d \in FileMethods(FileAt(f), {options.StructType}) :
                /\ \E k \in Entries : allMethods[k] = RunSignature(d)
                /\ \A e \in FileMethods(FileAt(3 - f), {options.StructType}) : e.Name # d.Name

(***************************************************************************)
(* Runs of Make over the documentation options.                            *)
(***************************************************************************)

\* The most files a run over the documentation options is given.
MaxDocFiles == 1

\* The MakeOptions of the runs that vary the interface comment and the
\* copying of the type doc.
DocOptionSets ==
    [Files : UNION {[1..n -> Paths] : n \in 0..MaxDocFiles},
     StructType : {tA, tB},
     Comment : {<<"D", "O", " ", "N", "O", "T", " ", "E", "D", "I", "T">>},
     PkgName : {pkgP},
     WithPromoted : {TRUE},
     IfaceName : {<<"I">>},
     IfaceComment : {<<>>, <<"I", " ", "i", "s", " ", "A">>},
     ImportModule : {<<>>},
     CopyDocs : {TRUE},
     CopyTypeDoc : BOOLEAN,
     ExcludeMethods : {<<>>},
     WithNotExported : {FALSE}]

DocInit ==
    /\ \E o \in DocOptionSets : MakeInit(o)
    /\ fmtIn = NoFormat
    /\ fmtOut = <<>>

DocSpec == DocInit /\ [][Next]_vars

\* The doc of the requested type in the first file of the run that has one,
\* without its final line break.
DeclaredDoc ==
    FirstNonEmptyIn([f \in 1..Len(options.Files) |->
        TypeDocOf(TypeSpecsOf(FileAt(f)), options.StructType, <<>>)])

\* The lines between the import block and the interface declaration of the
\* text that is emitted for the given doc lines.
DocBlock(lines) ==
    <<")", "\n", "\n">> \o lines
        \o <<"t", "y", "p", "e", " ">> \o options.IfaceName

\* The comment line of a text.
CommentLine(text) == <<"/", "/", " ">> \o text \o <<"\n">>

\* C27: at the step that calls MakeInterface a type doc is retained exactly
\* when type docs are copied and the requested type has a doc; the text
\* returned then has the caller's comment with the type doc on the comment
\* line after it; without a retained type doc it has the caller's comment
\* alone, and no comment line at all when that comment is empty.
DocCompositionStep ==
    calls'.MakeInterface > calls.MakeInterface =>
        /\ typeDoc = (IF options.CopyTypeDoc THEN DeclaredDoc ELSE <<>>)
        /\ ret'.err = NoError =>
              IndexOf(ret'.bytes,
                      DocBlock(IF typeDoc # <<>>
                               THEN CommentLine(options.IfaceComment) \o CommentLine(typeDoc)
                               ELSE IF options.IfaceComment # <<>>
                               THEN CommentLine(options.IfaceComment)
                               ELSE <<>>)) > 0

DocComposition == [][DocCompositionStep]_vars

\* A text was returned for a caller's comment and a retained type doc.
CommentAndTypeDoc ==
    /\ Succeeded
    /\ options.IfaceComment # <<>>
    /\ typeDoc # <<>>
    /\ options.CopyTypeDoc

(***************************************************************************)
(* Properties of ParseEmbeddingGraph.                                      *)
(***************************************************************************)

\* The place of the last dot of a text; 0 when it has none.
LastDot(t) ==
    IF \E i \in 1..Len(t) : t[i] = "." THEN CHOOSE i \in 1..Len(t) :
        t[i] = "." /\ \A j \in (i + 1)..Len(t) : t[j] # "."
    ELSE 0

\* A type text up to its first opening bracket.
BeforeBracket(t) ==
    IF IndexOf(t, <<"[">>) > 0 THEN Slice(t, 1, IndexOf(t, <<"[">>) - 1) ELSE t

\* A text behind its last dot.
AfterLastDot(t) == Slice(t, LastDot(t) + 1, Len(t))

\* The bare identifier of the type text of an embedded field: without the
\* star in front, the generic arguments behind and the package qualifier.
BareIdentifier(t) == AfterLastDot(BeforeBracket(StripStar(t)))

\* A field has no name of its own.
IsAnonymous(field) == Len(field.Names) = 0

\* The bare identifiers of the anonymous fields of a struct, in field order.
AnonymousFieldNames(fields) ==
    [i \in 1..Len(SelectSeq(fields, IsAnonymous)) |->
        BareIdentifier(ExprText(SelectSeq(fields, IsAnonymous)[i].Type))]

\* A type spec declares a struct.
IsStructSpec(ts) == ts.Type.kind = "StructType"

\* The type specs of a file that declare a struct, in file order.
StructSpecsOf(file) == SelectSeq(TypeSpecsOf(file), IsStructSpec)

\* The lists of anonymous field names of the structs called name among the
\* given specs, one after the other.
EdgesOfStruct(specs, name) ==
    Flatten([i \in 1..Len(specs) |->
        IF specs[i].Name = name THEN AnonymousFieldNames(specs[i].Type.Fields) ELSE <<>>])

\* The graph g is the one the file's declarations call for.
GraphAsDeclared(file, g) ==
    /\ DOMAIN g = {StructSpecsOf(file)[i].Name : i \in 1..Len(StructSpecsOf(file))}
    /\ \A name \in DOMAIN g : g[name] = EdgesOfStruct(StructSpecsOf(file), name)

\* C28: the graph ParseEmbeddingGraph makes of a file has an entry for
\* every struct the file declares and for nothing else; the entry lists, in
\* field order and with repeats, the bare identifiers of the struct's
\* anonymous fields, a pointer, generic arguments and a package qualifier
\* taken off; and the first pass appends these lists to the merged graph.
EmbeddingGraphBuiltStep ==
    pc = "pass1" /\ idx' = idx + 1 =>
        /\ GraphAsDeclared(FileAt(idx), ParseEmbeddingGraph(FileAt(idx)))
        /\ DOMAIN fullEmbeddingGraph'
              = DOMAIN fullEmbeddingGraph \cup DOMAIN ParseEmbeddingGraph(FileAt(idx))
        /\ \A name \in DOMAIN fullEmbeddingGraph' :
              fullEmbeddingGraph'[name]
                  = MapGet(fullEmbeddingGraph, name)
                        \o EdgesOfStruct(StructSpecsOf(FileAt(idx)), name)

EmbeddingGraphBuilt == [][EmbeddingGraphBuiltStep]_vars

\* The embedded fields of the given kind in the structs of a file.
EmbeddedOfKind(file, kind) ==
    {ts \in SetOf(StructSpecsOf(file)) :
        \E i \in 1..Len(ts.Type.Fields) :
            IsAnonymous(ts.Type.Fields[i]) /\ ts.Type.Fields[i].Type.kind = kind}

\* The first pass has gone past files with an embedded pointer to a generic
\* instantiation, an embedded qualified type, a struct with a named field,
\* and a struct whose merged list has more names than one file gives it.
VariousEmbeddings ==
    /\ pc = "pass1"
    /\ idx = 3
    /\ \E f \in 1..2 : EmbeddedOfKind(FileAt(f), "StarExpr") # {}
    /\ \E f \in 1..2 : EmbeddedOfKind(FileAt(f), "SelectorExpr") # {}
    /\ \E f \in 1..2 : \E ts \in SetOf(StructSpecsOf(FileAt(f))) :
          \E i \in 1..Len(ts.Type.Fields) : ~IsAnonymous(ts.Type.Fields[i])
    /\ \E name \in DOMAIN fullEmbeddingGraph :
          \A f \in 1..2 :
              Len(fullEmbeddingGraph[name]) > Len(MapGet(ParseEmbeddingGraph(FileAt(f)), name))

\* The requested type is embedded by itself or by a type it reaches.
TargetOnCycle ==
    \E n \in EmbeddingClosure \cup {options.StructType} :
        options.StructType \in SetOf(MapGet(fullEmbeddingGraph, n))

\* A turn of the traversal that takes the requested type off the queue when
\* the requested type is already in the set.
SecondTurnOfTarget ==
    /\ pc = "closure"
    /\ pc' = "closure"
    /\ Head(queue) = options.StructType
    /\ options.StructType \in embeddedStructNamesSet

\* C29: when the traversal ends, its set is the set of the names reached
\* from the requested type along one or more edges of the merged graph; the
\* empty name is not in it; the requested type is in it exactly when it lies
\* on a cycle of edges, and the turn that takes the requested type off the
\* queue for the second time adds nothing to the set or the queue.
ClosureExactStep ==
    /\ pc = "closure" /\ pc' = "pass2" =>
          /\ embeddedStructNamesSet = EmbeddingClosure
          /\ <<>> \notin embeddedStructNamesSet
          /\ options.StructType \in embeddedStructNamesSet <=> TargetOnCycle
    /\ SecondTurnOfTarget =>
          /\ embeddedStructNamesSet' = embeddedStructNamesSet
          /\ queue' = Tail(queue)

ClosureExact == [][ClosureExactStep]_vars

\* The traversal has ended for a requested type that lies on a cycle through
\* another type; the merged graph has a struct the traversal did not reach.
TargetReachedAgain ==
    /\ pc = "pass2"
    /\ options.StructType \in embeddedStructNamesSet
    /\ options.StructType \notin SetOf(MapGet(fullEmbeddingGraph, options.StructType))
    /\ DOMAIN fullEmbeddingGraph \ embeddedStructNamesSet # {}

(***************************************************************************)
(* Properties of types that are qualified in the source                    *)
(***************************************************************************)

RECURSIVE AlreadyQualified(_)
\* A type q.T behind star, slice and map prefix items.
AlreadyQualified(e) ==
    CASE e.kind = "SelectorExpr" -> TRUE
      [] e.kind = "StarExpr" -> AlreadyQualified(e.x)
      [] e.kind = "ArrayType" -> AlreadyQualified(e.elt)
      [] e.kind = "MapType" -> AlreadyQualified(e.value)
      [] OTHER -> FALSE

RECURSIVE WordStart(_, _)
\* The first position of the run of identifier characters of t that ends at
\* position i.
WordStart(t, i) ==
    IF i > 1 /\ IsWordChar(t[i - 1]) THEN WordStart(t, i - 1) ELSE i

RECURSIVE QualifiersBefore(_, _)
\* The number of qualifiers, an identifier and a dot each, that stand in t one
\* after the other and end at position i.
QualifiersBefore(t, i) ==
    IF i >= 2 /\ t[i] = "." /\ IsWordChar(t[i - 1])
    THEN 1 + QualifiersBefore(t, WordStart(t, i - 1) - 1)
    ELSE 0

\* The number of qualifiers in front of the base name T the formatted type
\* ends with.
QualifiersOfBase ==
    QualifiersBefore(fmtOut[1],
                     Len(fmtOut[1]) - Len(baseIdentName(FmtField.Type)))

\* C30: the formatted text of a type that is written q.T in the source,
\* behind star, slice and map prefix items, ends with T and has at most one
\* package qualifier in front of it, whatever the declared types and the
\* destination package are.
QualifiedOnce ==
    pc = "formatted" /\ AlreadyQualified(FmtField.Type) =>
        /\ HasAt(fmtOut[1],
                 Len(fmtOut[1]) - Len(baseIdentName(FmtField.Type)) + 1,
                 baseIdentName(FmtField.Type))
        /\ QualifiersOfBase <= 1

====
